---- MODULE Spec2Model ----
(***************************************************************************)
(* A model of dlls/crypt32/encode.c: the ASN.1 DER encoders and decoders   *)
(* behind CryptEncodeObjectEx / CryptDecodeObjectEx.                       *)
(*                                                                         *)
(* Conventions.                                                            *)
(*  - A BYTE is a number in 0..255.  A buffer is a sequence of BYTEs; the  *)
(*    C index i of a buffer s is At(s, i) (TLA+ sequences start at 1).     *)
(*  - A DWORD / INT is a Word: four BYTEs, most significant first, so that *)
(*    shifts, negation and wrap-around keep their 32-bit width.            *)
(*  - A C string is a sequence of character codes (ASCII), without the     *)
(*    terminating NUL unless it is stored in a buffer.                     *)
(*  - Every codec is an operator from the call's arguments to the call's   *)
(*    outcome: ret (the BOOL), err (the thread's last error, NOERROR on    *)
(*    entry as the dispatchers set it), cb (the size cell afterwards) and  *)
(*    out (the bytes written from the start of the output buffer).         *)
(***************************************************************************)
EXTENDS Integers, Sequences, FiniteSets, TLC

VARIABLES pc, call, res, prev, loc

vars == <<pc, call, res, prev, loc>>

-----------------------------------------------------------------------------
(* Bounds of the model.                                                    *)

\* longest content (blob bytes, element contents) drawn for an input
MaxContent == 2
\* largest capacity a caller passes in the size cell is CapStep * MaxCapSteps
MaxCapSteps == 6

-----------------------------------------------------------------------------
(* Program constants.                                                      *)

ASN_INTEGER == 2
ASN_BITSTRING == 3
ASN_OCTETSTRING == 4
ASN_OBJECTIDENTIFIER == 6
ASN_ENUMERATED == 10
ASN_SEQUENCE == 16
ASN_SETOF == 17
ASN_NUMERICSTRING == 18
ASN_PRINTABLESTRING == 19
ASN_IA5STRING == 22
ASN_UTCTIME == 23
ASN_GENERALTIME == 24
ASN_CONSTRUCTOR == 32

\* sizeof() of the records the decoders lay out (32-bit build: DWORD and
\* pointers are 4 bytes)
SIZEOF_INT == 4
SIZEOF_DWORD == 4
SIZEOF_FILETIME == 8
SIZEOF_CRYPT_DATA_BLOB == 8
SIZEOF_CRYPT_BIT_BLOB == 12
SIZEOF_CERT_NAME_VALUE == 12
SIZEOF_CERT_RDN_ATTR == 16
SIZEOF_CERT_RDN == 8
SIZEOF_CERT_NAME_INFO == 8

\* the characters '-', '.', '0' and 'Z'
CH_MINUS == 45
CH_DOT == 46
CH_0 == 48
CH_Z == 90

NOERROR == "NOERROR"
ERROR_MORE_DATA == "ERROR_MORE_DATA"
ERROR_OUTOFMEMORY == "ERROR_OUTOFMEMORY"
ERROR_INVALID_PARAMETER == "ERROR_INVALID_PARAMETER"
STATUS_ACCESS_VIOLATION == "STATUS_ACCESS_VIOLATION"
CRYPT_E_ASN1_ERROR == "CRYPT_E_ASN1_ERROR"
CRYPT_E_ASN1_EOD == "CRYPT_E_ASN1_EOD"
CRYPT_E_ASN1_BADTAG == "CRYPT_E_ASN1_BADTAG"
CRYPT_E_ASN1_CORRUPT == "CRYPT_E_ASN1_CORRUPT"
CRYPT_E_ASN1_LARGE == "CRYPT_E_ASN1_LARGE"
CRYPT_E_ASN1_INTERNAL == "CRYPT_E_ASN1_INTERNAL"
CRYPT_E_BAD_ENCODE == "CRYPT_E_BAD_ENCODE"
OSS_UNIMPLEMENTED == "OSS_UNIMPLEMENTED"

-----------------------------------------------------------------------------
(* Bytes, words, buffers.                                                  *)

Byte == 0..255

At(s, i) == s[i + 1]

Min(a, b) == IF a < b THEN a ELSE b

\* s[from .. from+n-1] in C indices, as a sequence
Slice(s, from, n) == [k \in 1..n |-> s[from + k]]

\* the DWORD n (0 <= n < 2^31) as a Word
WFromNat(n) ==
    << (n \div 16777216) % 256, (n \div 65536) % 256, (n \div 256) % 256, n % 256 >>

\* the value of a Word below 2^31
WVal(w) == ((w[1] * 256 + w[2]) * 256 + w[3]) * 256 + w[4]

ZeroWord == << 0, 0, 0, 0 >>

\* w << 8 on 32 bits
WShl8(w) == << w[2], w[3], w[4], 0 >>

\* (w << 8) | b
WShl8Or(w, b) == << w[2], w[3], w[4], b >>

\* -w on 32 bits, two's complement: ~w + 1
WNeg(w) ==
    LET c4 == (255 - w[4]) + 1
        c3 == (255 - w[3]) + (c4 \div 256)
        c2 == (255 - w[2]) + (c3 \div 256)
        c1 == (255 - w[1]) + (c2 \div 256)
    IN  << c1 % 256, c2 % 256, c3 % 256, c4 % 256 >>

\* (int)w < 0
WIsNeg(w) == w[1] >= 128

\* the most negative INT, whose negation overflows
INT_MIN_WORD == << 128, 0, 0, 0 >>

\* (DWORD)(w + 256) > n, for a small n: the sum wraps at 2^32
WPlus256GtNat(w, n) ==
    LET upper == (((w[1] * 256 + w[2]) * 256 + w[3]) + 1) % 16777216
    IN  IF upper >= 8388608 THEN TRUE ELSE upper * 256 + w[4] > n

-----------------------------------------------------------------------------
(* The capacity shim.                                                      *)

\* a variant of the shim that reports ERROR_MORE_DATA without storing the
\* needed size, as CRYPT_EncodeLen does; the too-small contract fails under it
EnsureSpaceCellKept(alloc, allocOk, cb, bytesNeeded) ==
    IF alloc
    THEN IF ~allocOk
         THEN [ret |-> FALSE, err |-> ERROR_OUTOFMEMORY, cb |-> cb]
         ELSE [ret |-> TRUE, err |-> NOERROR, cb |-> bytesNeeded]
    ELSE IF bytesNeeded > cb
         THEN [ret |-> FALSE, err |-> ERROR_MORE_DATA, cb |-> cb]
         ELSE [ret |-> TRUE, err |-> NOERROR, cb |-> cb]

\* CRYPT_EncodeEnsureSpace: with the ALLOC flag the buffer is allocated and
\* the size cell set; otherwise the size cell is only written when it is too
\* small.  allocOk is the allocator's answer.
CRYPT_EncodeEnsureSpace(alloc, allocOk, cb, bytesNeeded) ==
    IF alloc
    THEN IF ~allocOk
         THEN [ret |-> FALSE, err |-> ERROR_OUTOFMEMORY, cb |-> cb]
         ELSE [ret |-> TRUE, err |-> NOERROR, cb |-> bytesNeeded]
    ELSE IF bytesNeeded > cb
         THEN [ret |-> FALSE, err |-> ERROR_MORE_DATA, cb |-> bytesNeeded]
         ELSE [ret |-> TRUE, err |-> NOERROR, cb |-> cb]

\* CRYPT_DecodeEnsureSpace: the same shim on the decode side.
CRYPT_DecodeEnsureSpace(alloc, allocOk, cb, bytesNeeded) ==
    IF alloc
    THEN IF ~allocOk
         THEN [ret |-> FALSE, err |-> ERROR_OUTOFMEMORY, cb |-> cb]
         ELSE [ret |-> TRUE, err |-> NOERROR, cb |-> bytesNeeded]
    ELSE IF cb < bytesNeeded
         THEN [ret |-> FALSE, err |-> ERROR_MORE_DATA, cb |-> bytesNeeded]
         ELSE [ret |-> TRUE, err |-> NOERROR, cb |-> cb]

-----------------------------------------------------------------------------
(* The length codec.                                                       *)

\* the loop of CRYPT_EncodeLen: for (temp = len, significantBytes = 4;
\* !(temp & 0xff000000); temp <<= 8, significantBytes--)
RECURSIVE LenSignificantBytes(_, _)
LenSignificantBytes(temp, significantBytes) ==
    IF temp[1] # 0 THEN significantBytes
    ELSE LenSignificantBytes(WShl8(temp), significantBytes - 1)

\* the number of length octets CRYPT_EncodeLen needs for len
LenBytesNeeded(len) ==
    IF len <= 127 THEN 1 ELSE LenSignificantBytes(WFromNat(len), 4) + 1

\* the octets CRYPT_EncodeLen writes for len
LenOctets(len) ==
    IF len <= 127 THEN << len >>
    ELSE LET significantBytes == LenSignificantBytes(WFromNat(len), 4)
             w == WFromNat(len)
         IN  << (significantBytes + 128) % 256 >>
             \o [i \in 1..significantBytes |-> w[4 - significantBytes + i]]

\* CRYPT_EncodeLen(len, pbEncoded, pcbEncoded)
CRYPT_EncodeLen(len, hasBuf, cb) ==
    LET bytesNeeded == LenBytesNeeded(len)
    IN  IF ~hasBuf
        THEN [ret |-> TRUE, err |-> NOERROR, cb |-> bytesNeeded, out |-> << >>]
        ELSE IF cb < bytesNeeded
        THEN [ret |-> FALSE, err |-> ERROR_MORE_DATA, cb |-> cb, out |-> << >>]
        ELSE [ret |-> TRUE, err |-> NOERROR, cb |-> bytesNeeded,
              out |-> LenOctets(len)]

\* GET_LEN_BYTES(b)
GET_LEN_BYTES(b) == IF b <= 127 THEN 1 ELSE 1 + (b % 128)

\* the loop of CRYPT_GetLen: while (lenLen--) { out <<= 8; out |= *pbEncoded++; }
\* reading from C index pos
RECURSIVE GetLenLoop(_, _, _, _)
GetLenLoop(mem, pos, lenLen, out) ==
    IF lenLen = 0 THEN out
    ELSE GetLenLoop(mem, pos + 1, lenLen - 1, WShl8Or(out, At(mem, pos)))

\* CRYPT_GetLen(pbEncoded, cbEncoded, &len).  mem is the memory starting
\* at pbEncoded, of which the first cbEncoded bytes are the caller's buffer.
\* len is the Word stored in *len; rd is the number of leading bytes of mem
\* the call has read (one past the highest index read).
CRYPT_GetLen(mem, cbEncoded) ==
    IF cbEncoded <= 1
    THEN [ret |-> FALSE, err |-> CRYPT_E_ASN1_EOD, len |-> ZeroWord, rd |-> 0]
    ELSE IF At(mem, 1) <= 127
    THEN [ret |-> TRUE, err |-> NOERROR, len |-> WFromNat(At(mem, 1)), rd |-> 2]
    ELSE LET lenLen == GET_LEN_BYTES(At(mem, 1)) % 256
         IN  IF lenLen > SIZEOF_DWORD
             THEN [ret |-> FALSE, err |-> CRYPT_E_ASN1_LARGE, len |-> ZeroWord,
                   rd |-> 2]
             ELSE IF lenLen + 2 > cbEncoded
             THEN [ret |-> FALSE, err |-> CRYPT_E_ASN1_CORRUPT, len |-> ZeroWord,
                   rd |-> 2]
             ELSE LET out == GetLenLoop(mem, 2, lenLen, ZeroWord)
                  IN  \* lenLen is a BYTE that the loop left at 0xff
                      IF WPlus256GtNat(out, cbEncoded)
                      THEN [ret |-> FALSE, err |-> CRYPT_E_ASN1_EOD,
                            len |-> ZeroWord, rd |-> 2 + lenLen]
                      ELSE [ret |-> TRUE, err |-> NOERROR, len |-> out,
                            rd |-> 2 + lenLen]

-----------------------------------------------------------------------------
(* Calls.  An encoder call p carries hasBuf (pbEncoded # NULL), alloc      *)
(* (CRYPT_ENCODE_ALLOC_FLAG), allocOk (the allocator's answer) and cb (the *)
(* size cell on entry).  A decoder call carries the same for pvStructInfo  *)
(* and pcbStructInfo, plus nocopy (CRYPT_DECODE_NOCOPY_FLAG), mem (the     *)
(* memory at pbEncoded) and cbEncoded.  An argument that may be NULL is    *)
(* Null or Ptr(x), the pointer to x.                                       *)

Null == << >>

Ptr(x) == << x >>

Deref(ptr) == ptr[1]

\* the outcome of an encoder that fails before it touches the size cell
EncFail(err, p) == [ret |-> FALSE, err |-> err, cb |-> p.cb, out |-> << >>]

\* the outcome of a sizing call (Phase A)
EncSized(bytesNeeded) ==
    [ret |-> TRUE, err |-> NOERROR, cb |-> bytesNeeded, out |-> << >>]

\* the outcome of an encoder after CRYPT_EncodeEnsureSpace answered e and,
\* when it let the call through, bytes were written
EncWritten(e, bytes) ==
    [ret |-> e.ret, err |-> e.err, cb |-> e.cb,
     out |-> IF e.ret THEN bytes ELSE << >>]

\* mem[from .. from+n-1] in C indices; a byte outside the modelled memory
\* reads as 0 (the outcome then carries fault)
ReadBytes(mem, from, n) ==
    [k \in 1..n |-> IF from + k <= Len(mem) THEN mem[from + k] ELSE 0]

-----------------------------------------------------------------------------
(* Octet string.                                                           *)

\* CRYPT_AsnEncodeOctets
CRYPT_AsnEncodeOctets(info, p) ==
    IF info = Null THEN EncFail(STATUS_ACCESS_VIOLATION, p)
    ELSE LET blob == Deref(info)
             lenBytes == LenBytesNeeded(Len(blob))
             bytesNeeded == 1 + lenBytes + Len(blob)
         IN  IF ~p.hasBuf THEN EncSized(bytesNeeded)
             ELSE EncWritten(
                    CRYPT_EncodeEnsureSpace(p.alloc, p.allocOk, p.cb, bytesNeeded),
                    << ASN_OCTETSTRING >> \o LenOctets(Len(blob)) \o blob)

\* the outcome of a decoder called with pbEncoded = NULL (or cbEncoded = 0)
DecNoInput(p) ==
    [ret |-> FALSE, err |-> CRYPT_E_ASN1_EOD, cb |-> p.cb, val |-> Null,
     rd |-> 0, fault |-> FALSE]

\* the outcome of a decoder that fails before it touches the size cell
DecFail(err, p, rd) ==
    [ret |-> FALSE, err |-> err, cb |-> p.cb, val |-> Null, rd |-> rd,
     fault |-> rd > Len(p.mem)]

\* the outcome of a decoder's sizing call
DecSized(bytesNeeded, p, rd) ==
    [ret |-> TRUE, err |-> NOERROR, cb |-> bytesNeeded, val |-> Null, rd |-> rd,
     fault |-> rd > Len(p.mem)]

\* the outcome of a decoder after CRYPT_DecodeEnsureSpace answered e; v is
\* what it stores in the output on success and rdB what it has read by then
DecWritten(e, p, v, rdFail, rdB) ==
    [ret |-> e.ret, err |-> e.err, cb |-> e.cb,
     val |-> IF e.ret THEN Ptr(v) ELSE Null,
     rd |-> IF e.ret THEN rdB ELSE rdFail,
     fault |-> (IF e.ret THEN rdB ELSE rdFail) > Len(p.mem)]

\* CRYPT_AsnDecodeOctets.  The decoded CRYPT_DATA_BLOB is cbData, the place
\* pbData points to (the input buffer at an offset, or the output just
\* behind the record) and the bytes copied there.
CRYPT_AsnDecodeOctets(p) ==
    IF p.nullIn THEN DecNoInput(p)
    ELSE LET g == CRYPT_GetLen(p.mem, p.cbEncoded)
         IN  IF ~g.ret THEN DecFail(g.err, p, g.rd)
             ELSE IF At(p.mem, 0) # ASN_OCTETSTRING
             THEN DecFail(CRYPT_E_ASN1_BADTAG, p, g.rd)
             ELSE LET dataLen == WVal(g.len)
                      lenBytes == GET_LEN_BYTES(At(p.mem, 1))
                      bytesNeeded == IF p.nocopy THEN SIZEOF_CRYPT_DATA_BLOB
                                     ELSE dataLen + SIZEOF_CRYPT_DATA_BLOB
                  IN  IF ~p.hasBuf THEN DecSized(bytesNeeded, p, g.rd)
                      ELSE DecWritten(
                             CRYPT_DecodeEnsureSpace(p.alloc, p.allocOk, p.cb,
                                                     bytesNeeded),
                             p,
                             IF p.nocopy
                             THEN [cbData |-> dataLen,
                                   pbData |-> [buf |-> "input", off |-> 1 + lenBytes],
                                   data |-> << >>]
                             ELSE [cbData |-> dataLen,
                                   pbData |-> [buf |-> "output",
                                               off |-> SIZEOF_CRYPT_DATA_BLOB],
                                   data |-> ReadBytes(p.mem, 1 + lenBytes, dataLen)],
                             g.rd,
                             IF p.nocopy \/ dataLen = 0 THEN g.rd
                             ELSE 1 + lenBytes + dataLen)

-----------------------------------------------------------------------------
(* Fixed-width signed integer.                                             *)

\* the loop condition of CRYPT_AsnEncodeInt: !(val & 0xff000000)
IntCountCond(val) == val[1] = 0

\* one turn of the loop: val <<= 8, significantBytes-- (a BYTE)
IntCountBody(l) ==
    [l EXCEPT !.val = WShl8(l.val),
              !.significantBytes = (l.significantBytes - 1) % 256]

\* val = -val.  The negation of INT_MIN overflows: the build either wraps
\* (the usual two's complement negate) or traps.
NegOutcomes(val) ==
    { [trap |-> FALSE, val |-> WNeg(val)] }
    \cup (IF val = INT_MIN_WORD THEN { [trap |-> TRUE, val |-> val] } ELSE { })

\* the locals of CRYPT_AsnEncodeInt when the counting loop is entered; val
\* is the value after "if (val < 0) { neg = TRUE; val = -val; }" came out
\* as absVal
IntLocals(absVal, neg) ==
    [val |-> absVal, neg |-> neg, significantBytes |-> SIZEOF_INT, hang |-> FALSE]

\* CRYPT_AsnEncodeInt from the exit of the counting loop to its return; val2
\* is the outcome of the second "val = -val" of a negative value
IntEncodeTail(l, val2, p) ==
    LET val == IF l.neg THEN val2 ELSE l.val
        \* neg: (val & 0xff000000) < 0x80000000; else: > 0x7f000000
        pad == IF l.neg THEN val[1] < 128 ELSE val[1] > 127
        padByte == IF l.neg THEN 255 ELSE 0
        bytesNeeded == (2 + l.significantBytes + (IF pad THEN 1 ELSE 0)) % 256
        content == [i \in 1..l.significantBytes |-> IF i <= 4 THEN val[i] ELSE 0]
    IN  IF ~p.hasBuf THEN EncSized(bytesNeeded)
        ELSE EncWritten(
               CRYPT_EncodeEnsureSpace(p.alloc, p.allocOk, p.cb, bytesNeeded),
               << ASN_INTEGER >>
               \o (IF pad THEN << (l.significantBytes + 1) % 256, padByte >>
                   ELSE << l.significantBytes >>)
               \o content)

\* CRYPT_AsnDecodeInt.  val is the decoded INT as a Word.
CRYPT_AsnDecodeInt(p) ==
    IF p.nullIn \/ p.cbEncoded = 0 THEN DecNoInput(p)
    ELSE IF ~p.hasBuf THEN DecSized(SIZEOF_INT, p, 0)
    ELSE IF At(p.mem, 0) # ASN_INTEGER THEN DecFail(CRYPT_E_ASN1_BADTAG, p, 1)
    ELSE IF p.cbEncoded <= 1 THEN DecFail(CRYPT_E_ASN1_EOD, p, 1)
    ELSE IF At(p.mem, 1) = 0 THEN DecFail(CRYPT_E_ASN1_CORRUPT, p, 2)
    ELSE IF At(p.mem, 1) > SIZEOF_INT THEN DecFail(CRYPT_E_ASN1_LARGE, p, 2)
    ELSE LET n == At(p.mem, 1)
             bytes == ReadBytes(p.mem, 2, n)
             \* val = -1 or 0, then n times val <<= 8; val |= pbEncoded[2 + i]
             init == IF bytes[1] >= 128 THEN << 255, 255, 255, 255 >> ELSE ZeroWord
             val == [k \in 1..4 |-> IF k <= 4 - n THEN init[k] ELSE bytes[k - (4 - n)]]
         IN  DecWritten(
               CRYPT_DecodeEnsureSpace(p.alloc, p.allocOk, p.cb, SIZEOF_INT),
               p, val, 2 + n, 2 + n)

\* CRYPT_AsnEncodeInt, run to its end: the set of its possible outcomes for
\* the INT at pvStructInfo, each with its fate: "returned", "hung" (the
\* counting loop never ends) or "trapped" (a negation overflowed and the
\* build traps).  The loop's condition reads val only, so once a turn leaves
\* val as it was while the condition holds, the loop never ends.
RECURSIVE IntCountLoop(_)
IntCountLoop(l) ==
    IF ~IntCountCond(l.val) THEN l
    ELSE IF IntCountBody(l).val = l.val THEN [l EXCEPT !.hang = TRUE]
    ELSE IntCountLoop(IntCountBody(l))

IntNoReturn(fate, p) ==
    [fate |-> fate, r |-> [ret |-> FALSE, err |-> NOERROR, cb |-> p.cb, out |-> << >>]]

IntReturn(r) == [fate |-> "returned", r |-> r]

CRYPT_AsnEncodeInt(info, p) ==
    IF info = Null THEN { IntReturn(EncFail(STATUS_ACCESS_VIOLATION, p)) }
    ELSE LET v == Deref(info)
             first == IF WIsNeg(v) THEN NegOutcomes(v)
                      ELSE { [trap |-> FALSE, val |-> v] }
         IN  UNION {
               IF a.trap THEN { IntNoReturn("trapped", p) }
               ELSE LET l == IntCountLoop(IntLocals(a.val, WIsNeg(v)))
                    IN  IF l.hang THEN { IntNoReturn("hung", p) }
                        ELSE IF ~l.neg THEN { IntReturn(IntEncodeTail(l, l.val, p)) }
                        ELSE { IF b.trap THEN IntNoReturn("trapped", p)
                               ELSE IntReturn(IntEncodeTail(l, b.val, p))
                               : b \in NegOutcomes(l.val) }
               : a \in first }

-----------------------------------------------------------------------------
(* Time encoders.  The FILETIME at pvStructInfo is carried as what         *)
(* FileTimeToSystemTime makes of it, the tuple of its answer (1 or 0) and   *)
(* the fields of the SYSTEMTIME from wYear to wSecond.                      *)

\* FileTimeToSystemTime(ft, &sysTime): its answer and the SYSTEMTIME
FileTimeToSystemTime(ft) ==
    [ok |-> ft[1] = 1,
     st |-> [wYear |-> ft[2], wMonth |-> ft[3], wDay |-> ft[4],
             wHour |-> ft[5], wMinute |-> ft[6], wSecond |-> ft[7]]]

\* "%02d" of n, for 0 <= n < 100; "%04d" of n, for 0 <= n < 10000
Fmt02(n) == << CH_0 + (n \div 10), CH_0 + (n % 10) >>

Fmt04(n) == Fmt02(n \div 100) \o Fmt02(n % 100)

SIZEOF_utc_buf == 16

SIZEOF_gen_buf == 18

\* CRYPT_AsnEncodeUtcTime
CRYPT_AsnEncodeUtcTime(info, p) ==
    IF info = Null THEN EncFail(STATUS_ACCESS_VIOLATION, p)
    ELSE LET ft == FileTimeToSystemTime(Deref(info))
             sysTime == ft.st
             bytesNeeded == SIZEOF_utc_buf - 1
             buf == << ASN_UTCTIME, bytesNeeded - 2 >>
                    \o Fmt02(IF sysTime.wYear >= 2000 THEN sysTime.wYear - 2000
                             ELSE sysTime.wYear - 1900)
                    \o Fmt02(sysTime.wDay) \o Fmt02(sysTime.wMonth)
                    \o Fmt02(sysTime.wHour) \o Fmt02(sysTime.wMinute)
                    \o Fmt02(sysTime.wSecond) \o << CH_Z >>
         IN  IF ~ft.ok THEN EncFail(ERROR_INVALID_PARAMETER, p)
             ELSE IF sysTime.wYear < 1950 \/ sysTime.wYear > 2050
             THEN EncFail(CRYPT_E_BAD_ENCODE, p)
             ELSE IF ~p.hasBuf THEN EncSized(bytesNeeded)
             ELSE EncWritten(
                    CRYPT_EncodeEnsureSpace(p.alloc, p.allocOk, p.cb, bytesNeeded),
                    buf)

\* CRYPT_AsnEncodeGeneralizedTime
CRYPT_AsnEncodeGeneralizedTime(info, p) ==
    IF info = Null THEN EncFail(STATUS_ACCESS_VIOLATION, p)
    ELSE LET ft == FileTimeToSystemTime(Deref(info))
             sysTime == ft.st
             bytesNeeded == SIZEOF_gen_buf - 1
             buf == << ASN_GENERALTIME, bytesNeeded - 2 >>
                    \o Fmt04(sysTime.wYear)
                    \o Fmt02(sysTime.wDay) \o Fmt02(sysTime.wMonth)
                    \o Fmt02(sysTime.wHour) \o Fmt02(sysTime.wMinute)
                    \o Fmt02(sysTime.wSecond) \o << CH_Z >>
         IN  IF ~p.hasBuf THEN EncSized(bytesNeeded)
             ELSE IF ~ft.ok THEN EncFail(ERROR_INVALID_PARAMETER, p)
             ELSE EncWritten(
                    CRYPT_EncodeEnsureSpace(p.alloc, p.allocOk, p.cb, bytesNeeded),
                    buf)

\* CRYPT_AsnEncodeChoiceOfTime
CRYPT_AsnEncodeChoiceOfTime(info, p) ==
    IF info = Null THEN EncFail(STATUS_ACCESS_VIOLATION, p)
    ELSE IF ~FileTimeToSystemTime(Deref(info)).ok
    THEN EncFail(ERROR_INVALID_PARAMETER, p)
    ELSE IF FileTimeToSystemTime(Deref(info)).st.wYear >= 1950
            /\ FileTimeToSystemTime(Deref(info)).st.wYear <= 2050
    THEN CRYPT_AsnEncodeUtcTime(info, p)
    ELSE CRYPT_AsnEncodeGeneralizedTime(info, p)

-----------------------------------------------------------------------------
(* The inputs the specifications draw.                                     *)

\* every sequence over S of length 0..n
SeqsUpTo(S, n) == UNION { [1..k -> S] : k \in 0..n }

CapStep == 3

\* the capacities a caller passes in the size cell
Caps == { CapStep * k : k \in 0..MaxCapSteps }

\* encoder calls: a sizing call, writing calls into a caller's buffer, and
\* allocating calls
EncParams ==
    { [hasBuf |-> FALSE, alloc |-> FALSE, allocOk |-> TRUE, cb |-> 0] }
    \cup { [hasBuf |-> TRUE, alloc |-> FALSE, allocOk |-> TRUE, cb |-> c] : c \in Caps }
    \cup { [hasBuf |-> TRUE, alloc |-> TRUE, allocOk |-> ok, cb |-> 0] : ok \in BOOLEAN }

\* bytes a blob is made of
BlobBytes == { 0, 127, 128, 255 }

Blobs == SeqsUpTo(BlobBytes, MaxContent)

\* the INTs drawn: every Word made of these bytes
IntBytes == { 0, 1, 127, 128, 255 }

Ints == [1..4 -> IntBytes]

\* the instants drawn, as FileTimeToSystemTime gives them, and a FILETIME
\* it refuses
Years == { 1949, 1950, 1999, 2000, 2015, 2050, 2051 }

FileTimes ==
    { << ok, y, mo, d, h, mi, sec >> :
        ok \in { 1 }, y \in Years, mo \in { 1, 4, 12 }, d \in { 1, 15, 31 },
        h \in { 0, 23 }, mi \in { 0, 59 }, sec \in { 0, 59 } }
        \cup { << 0, 0, 0, 0, 0, 0, 0 >> }

TimeCodecs == { "EncodeUtcTime", "EncodeGeneralizedTime", "EncodeChoiceOfTime" }

\* the memory at pbEncoded: a tag, a length octet and MemTail further bytes,
\* of which the caller's buffer covers the first cbEncoded
MemTail == 4

DecTags == { ASN_INTEGER, ASN_BITSTRING, ASN_OCTETSTRING }

DecLenOctets == { 0, 1, 2, 4, 5, 129 }

DecTails == { [k \in 1..MemTail |-> k], [k \in 1..MemTail |-> 256 - k] }

DecMems == { << t, n >> \o tail : t \in DecTags, n \in DecLenOctets, tail \in DecTails }

DecParams ==
    { [nullIn |-> FALSE, mem |-> m, cbEncoded |-> n, nocopy |-> nc,
       hasBuf |-> e.hasBuf, alloc |-> e.alloc, allocOk |-> e.allocOk, cb |-> e.cb]
      : m \in DecMems, n \in 0..(2 + MemTail), nc \in BOOLEAN, e \in EncParams }

-----------------------------------------------------------------------------
(* Spec: one call of a built-in codec.  The state is the call (the codec   *)
(* and its arguments), where it stands (pc) and its outcome (res).         *)

NoRes == [ret |-> FALSE, err |-> NOERROR, cb |-> 0]

NoLoc == [val |-> ZeroWord, neg |-> FALSE, significantBytes |-> 0, hang |-> FALSE]

Init ==
    /\ pc = "ready"
    /\ call \in
            { [codec |-> "EncodeOctets", info |-> Ptr(b), p |-> e] : b \in Blobs, e \in EncParams }
            \cup { [codec |-> "EncodeOctets", info |-> Null, p |-> e] : e \in EncParams }
            \cup { [codec |-> "EncodeInt", info |-> Ptr(v), p |-> e] : v \in Ints, e \in EncParams }
            \cup { [codec |-> c, info |-> Ptr(t), p |-> e]
                   : c \in TimeCodecs, t \in FileTimes, e \in EncParams }
            \cup { [codec |-> "DecodeOctets", info |-> Null, p |-> d] : d \in DecParams }
            \cup { [codec |-> "DecodeInt", info |-> Null, p |-> d]
                   : d \in { x \in DecParams : ~x.nocopy } }
    /\ res = NoRes
    /\ prev = NoRes
    /\ loc = NoLoc

Return(r) ==
    /\ pc' = "returned"
    /\ res' = r
    /\ UNCHANGED << call, prev, loc >>

EncodeOctets ==
    /\ pc = "ready"
    /\ call.codec = "EncodeOctets"
    /\ Return(CRYPT_AsnEncodeOctets(call.info, call.p))

EncodeInt ==
    /\ pc = "ready"
    /\ call.codec = "EncodeInt"
    /\ \E o \in CRYPT_AsnEncodeInt(call.info, call.p) :
          /\ pc' = o.fate
          /\ res' = o.r
          /\ UNCHANGED << call, prev, loc >>

EncodeUtcTime ==
    /\ pc = "ready"
    /\ call.codec = "EncodeUtcTime"
    /\ Return(CRYPT_AsnEncodeUtcTime(call.info, call.p))

EncodeGeneralizedTime ==
    /\ pc = "ready"
    /\ call.codec = "EncodeGeneralizedTime"
    /\ Return(CRYPT_AsnEncodeGeneralizedTime(call.info, call.p))

EncodeChoiceOfTime ==
    /\ pc = "ready"
    /\ call.codec = "EncodeChoiceOfTime"
    /\ Return(CRYPT_AsnEncodeChoiceOfTime(call.info, call.p))

DecodeOctets ==
    /\ pc = "ready"
    /\ call.codec = "DecodeOctets"
    /\ Return(CRYPT_AsnDecodeOctets(call.p))

DecodeInt ==
    /\ pc = "ready"
    /\ call.codec = "DecodeInt"
    /\ Return(CRYPT_AsnDecodeInt(call.p))

Next ==
    \/ EncodeOctets
    \/ EncodeInt
    \/ EncodeUtcTime
    \/ EncodeGeneralizedTime
    \/ EncodeChoiceOfTime
    \/ DecodeOctets
    \/ DecodeInt

Spec == Init /\ [][Next]_vars

-----------------------------------------------------------------------------
(* The two-phase capacity contract (C1, C2) and the input bounds (C3).     *)

\* the possible outcomes of a call c, each with its fate
Outcomes(c) ==
    CASE c.codec = "EncodeOctets" -> { IntReturn(CRYPT_AsnEncodeOctets(c.info, c.p)) }
      [] c.codec = "EncodeInt" -> CRYPT_AsnEncodeInt(c.info, c.p)
      [] c.codec = "EncodeUtcTime" ->
            { IntReturn(CRYPT_AsnEncodeUtcTime(c.info, c.p)) }
      [] c.codec = "EncodeGeneralizedTime" ->
            { IntReturn(CRYPT_AsnEncodeGeneralizedTime(c.info, c.p)) }
      [] c.codec = "EncodeChoiceOfTime" ->
            { IntReturn(CRYPT_AsnEncodeChoiceOfTime(c.info, c.p)) }
      [] c.codec = "DecodeOctets" -> { IntReturn(CRYPT_AsnDecodeOctets(c.p)) }
      [] c.codec = "DecodeInt" -> { IntReturn(CRYPT_AsnDecodeInt(c.p)) }

\* the sizes Phase A reports for the arguments of call c: the size cell after
\* the same call with a null output pointer
PhaseASizes(c) ==
    { o.r.cb : o \in { x \in Outcomes([c EXCEPT !.p.hasBuf = FALSE, !.p.alloc = FALSE])
                       : x.fate = "returned" /\ x.r.ret } }

\* the input of call c is valid: with a capacity of n the call succeeds
ValidWith(c, n) ==
    \E o \in Outcomes([c EXCEPT !.p.cb = n]) : o.fate = "returned" /\ o.r.ret

\* the call wrote into a caller's buffer (Phase B, no ALLOC flag)
PhaseB == pc = "returned" /\ call.p.hasBuf /\ ~call.p.alloc

\* C1: when a Phase-B call without the ALLOC flag succeeds, the size cell
\* holds exactly the Phase-A size, also when the capacity was larger.
C1_SizeCellExact ==
    (PhaseB /\ res.ret) => res.cb \in PhaseASizes(call)

\* C2: a Phase-B call without the ALLOC flag on a valid input whose capacity
\* is smaller than the Phase-A size fails with ERROR_MORE_DATA and leaves the
\* Phase-A size in the size cell.
C2_TooSmall ==
    PhaseB =>
      \A n \in PhaseASizes(call) :
          (call.p.cb < n /\ ValidWith(call, n)) =>
              /\ ~res.ret
              /\ res.err = ERROR_MORE_DATA
              /\ res.cb = n

\* a Phase-B call with a capacity that is positive and too small has failed
\* with ERROR_MORE_DATA and raised the size cell
C2_Witness ==
    /\ PhaseB
    /\ call.codec = "DecodeOctets"
    /\ call.p.cb > 0
    /\ \E n \in PhaseASizes(call) : call.p.cb < n /\ ValidWith(call, n) /\ res.cb = n
    /\ res.err = ERROR_MORE_DATA

IsDecode == call.codec \in { "DecodeOctets", "DecodeInt" }

\* the content length the element at pbEncoded declares in short form does
\* not fit in the cbEncoded bytes of the buffer
DeclaredTooLong ==
    /\ ~call.p.nullIn
    /\ call.p.cbEncoded >= 2
    /\ At(call.p.mem, 1) <= 127
    /\ 2 + At(call.p.mem, 1) > call.p.cbEncoded

\* C3: no decoder reads an input octet at an index >= cbEncoded, and an
\* element whose declared content length does not fit in the buffer is
\* rejected with CRYPT_E_ASN1_EOD.
C3_ReadsInBounds ==
    (pc = "returned" /\ IsDecode) =>
        /\ res.rd <= call.p.cbEncoded
        /\ (DeclaredTooLong /\ At(call.p.mem, 0) \in { ASN_OCTETSTRING, ASN_INTEGER })
             => (~res.ret /\ res.err = CRYPT_E_ASN1_EOD)

\* two decimal digits
TwoDigits(n) == << CH_0 + (n \div 10), CH_0 + (n % 10) >>

\* hours, minutes and seconds of the instant, two digits each, and Z
TimeOfDayZ(st) ==
    TwoDigits(st.wHour) \o TwoDigits(st.wMinute) \o TwoDigits(st.wSecond) \o << CH_Z >>

\* C8: the UTCTime encoder writes 17 0D and YYMMDDHHMMSSZ, the month before
\* the day; the GeneralizedTime encoder writes YYYYMMDDHHMMSSZ likewise.
C8_MonthBeforeDay ==
    (pc = "returned" /\ call.codec \in { "EncodeUtcTime", "EncodeGeneralizedTime" }
        /\ call.p.hasBuf /\ res.ret) =>
        LET st == FileTimeToSystemTime(Deref(call.info)).st
        IN  IF call.codec = "EncodeUtcTime"
            THEN res.out = << 23, 13 >> \o TwoDigits(st.wYear % 100)
                           \o TwoDigits(st.wMonth) \o TwoDigits(st.wDay) \o TimeOfDayZ(st)
            ELSE res.out = << 24, 15 >> \o TwoDigits(st.wYear \div 100)
                           \o TwoDigits(st.wYear % 100)
                           \o TwoDigits(st.wMonth) \o TwoDigits(st.wDay) \o TimeOfDayZ(st)

-----------------------------------------------------------------------------
(* The fixed-width integer encoder, statement by statement, followed by    *)
(* the fixed-width decoder on the bytes it wrote (C4, C5).                 *)

\* the capacity of the largest INTEGER the encoder writes: tag, length and
\* sizeof(INT) content octets
IntMaxEncoded == 2 + SIZEOF_INT

InitInt ==
    /\ pc = "enter"
    /\ call \in
            { [codec |-> "EncodeInt", info |-> Ptr(v), p |-> e] : v \in Ints, e \in EncParams }
    /\ res = NoRes
    /\ prev = NoRes
    /\ loc = NoLoc

\* memcpy(&val, pvStructInfo, sizeof(val)); if (val < 0) { neg = TRUE;
\* val = -val; } significantBytes = sizeof(val)
EncodeInt_Enter ==
    /\ pc = "enter"
    /\ LET v == Deref(call.info)
       IN  \E a \in (IF WIsNeg(v) THEN NegOutcomes(v) ELSE { [trap |-> FALSE, val |-> v] }) :
             IF a.trap
             THEN pc' = "trapped" /\ UNCHANGED loc
             ELSE pc' = "count" /\ loc' = IntLocals(a.val, WIsNeg(v))
    /\ UNCHANGED << call, res, prev >>

\* one turn of the counting loop: its condition held
EncodeInt_Count ==
    /\ pc = "count"
    /\ IntCountCond(loc.val)
    /\ loc' = IntCountBody(loc)
    /\ UNCHANGED << pc, call, res, prev >>

\* the counting loop is left and the rest of the encoder runs to its return
EncodeInt_Exit ==
    /\ pc = "count"
    /\ ~IntCountCond(loc.val)
    /\ \E b \in (IF loc.neg THEN NegOutcomes(loc.val) ELSE { [trap |-> FALSE, val |-> loc.val] }) :
         IF b.trap
         THEN pc' = "trapped" /\ UNCHANGED res
         ELSE LET r == IntEncodeTail(loc, b.val, call.p)
              IN  /\ res' = r
                  /\ pc' = IF r.ret /\ call.p.hasBuf THEN "encoded" ELSE "returned"
    /\ UNCHANGED << call, prev, loc >>

\* CRYPT_AsnDecodeInt on the bytes the encoder wrote, into an INT
DecodeInt_Call ==
    /\ pc = "encoded"
    /\ prev' = res
    /\ res' = CRYPT_AsnDecodeInt(
                [nullIn |-> FALSE, mem |-> res.out, cbEncoded |-> Len(res.out),
                 nocopy |-> FALSE, hasBuf |-> TRUE, alloc |-> FALSE,
                 allocOk |-> TRUE, cb |-> SIZEOF_INT])
    /\ pc' = "returned"
    /\ UNCHANGED << call, loc >>

NextInt ==
    \/ EncodeInt_Enter
    \/ EncodeInt_Count
    \/ EncodeInt_Exit
    \/ DecodeInt_Call

SpecInt == InitInt /\ [][NextInt]_vars

\* a codec runs without yielding: a call that can take a step takes it
FairSpecInt == InitInt /\ [][NextInt]_vars /\ WF_vars(NextInt)

\* the encoder was given a buffer that holds any INTEGER it writes
IntRoomy ==
    /\ call.p.hasBuf
    /\ (call.p.alloc /\ call.p.allocOk) \/ (~call.p.alloc /\ call.p.cb >= IntMaxEncoded)

\* C4: for every 32-bit v, the fixed-width encoder given room returns bytes
\* that the fixed-width decoder decodes to v.
C4_RoundTrip ==
    (pc = "enter" /\ IntRoomy)
        ~> (pc = "returned" /\ prev.ret /\ res.ret /\ res.val = Ptr(Deref(call.info)))

\* C5: every call of the fixed-width integer encoder comes to its end,
\* whatever the value, 0 included.
C5_Terminates ==
    <>(pc \in { "encoded", "returned", "trapped" })

-----------------------------------------------------------------------------
(* Object identifiers.  A C string is the sequence of its character codes  *)
(* without the terminating NUL; the strings the model draws hold digits    *)
(* and dots only.                                                          *)

IsDigit(c) == c >= CH_0 /\ c <= CH_0 + 9

\* the character at C index i of the string s; the NUL from its end on
CharAt(s, i) == IF i < Len(s) THEN s[i + 1] ELSE 0

\* a %d conversion of sscanf at C index pos of s: n is the number of
\* characters consumed (0: the conversion fails), val the number read
RECURSIVE ScanD(_, _, _, _)
ScanD(s, pos, n, val) ==
    IF IsDigit(CharAt(s, pos + n))
    THEN ScanD(s, pos, n + 1, val * 10 + (CharAt(s, pos + n) - CH_0))
    ELSE [n |-> n, val |-> val]

\* sscanf(pszObjId, "%d.%d.%n", &val1, &val2, &firstPos) once its two
\* conversions a and b were tried: count is the number of conversions
\* stored; firstPos is stored only when the second dot was matched and
\* otherwise keeps the 0 it was initialised with
SscanfStored(s, a, b) ==
    IF a.n = 0 THEN [count |-> 0, val1 |-> 0, val2 |-> 0, firstPos |-> 0]
    ELSE IF CharAt(s, a.n) # CH_DOT \/ b.n = 0
    THEN [count |-> 1, val1 |-> a.val, val2 |-> 0, firstPos |-> 0]
    ELSE [count |-> 2, val1 |-> a.val, val2 |-> b.val,
          firstPos |-> IF CharAt(s, a.n + 1 + b.n) = CH_DOT
                       THEN a.n + 1 + b.n + 1 ELSE 0]

SscanfSecond(s, a) == SscanfStored(s, a, ScanD(s, a.n + 1, 0, 0))

SscanfFirstTwo(s) == SscanfSecond(s, ScanD(s, 0, 0, 0))

\* the number of base-128 octets the encoder gives the arc val
OidArcBytes(val) ==
    IF val >= 268435456 THEN 5
    ELSE IF val >= 2097152 THEN 4
    ELSE IF val >= 16384 THEN 3
    ELSE IF val >= 128 THEN 2
    ELSE 1

\* val >> (7 * k), for val >= 0
Shr7(val, k) ==
    IF k = 0 THEN val
    ELSE IF k = 1 THEN val \div 128
    ELSE IF k = 2 THEN val \div 16384
    ELSE IF k = 3 THEN val \div 2097152
    ELSE val \div 268435456

\* the octets the encoder writes for the arc val: outBytes[i] | 0x80 for all
\* but the last
OidArcOctets(val) ==
    LET numBytes == OidArcBytes(val)
    IN  [i \in 1..numBytes |->
            (Shr7(val, numBytes - i) % 128) + (IF i < numBytes THEN 128 ELSE 0)]

\* one turn of the arc loop, after its conversion a at C index ptr of s
OidArcNext(s, ptr, a) ==
    IF CharAt(s, ptr + a.n) = CH_DOT THEN ptr + a.n + 1 ELSE ptr + a.n

\* the arc loop of CRYPT_AsnEncodeOid from C index ptr of s: ok is FALSE
\* when a conversion failed, out the octets of the arcs read
RECURSIVE OidArcLoop(_, _, _)
OidArcLoop(s, ptr, out) ==
    IF CharAt(s, ptr) = 0 THEN [ok |-> TRUE, out |-> out]
    ELSE IF ScanD(s, ptr, 0, 0).n = 0 THEN [ok |-> FALSE, out |-> out]
    ELSE OidArcLoop(s, OidArcNext(s, ptr, ScanD(s, ptr, 0, 0)),
                    out \o OidArcOctets(ScanD(s, ptr, 0, 0).val))

\* the outcome of an inner encoder: over says that the call wrote beyond
\* the cb bytes of its buffer
Inner(ret, err, cb, out, over) ==
    [ret |-> ret, err |-> err, cb |-> cb, out |-> out, over |-> over]

\* CRYPT_AsnEncodeOid from line 473 on, the content octets and bytesNeeded
\* known.  p.buf0 is the byte the output buffer held at its first index
\* before the call, which the encoder compares with bytesNeeded in place of
\* the capacity p.cb.
OidEmit(content, bytesNeeded, p) ==
    IF ~p.hasBuf THEN Inner(TRUE, NOERROR, bytesNeeded, << >>, FALSE)
    ELSE IF p.buf0 < bytesNeeded
    THEN Inner(FALSE, ERROR_MORE_DATA, bytesNeeded, << >>, FALSE)
    ELSE Inner(TRUE, NOERROR, bytesNeeded,
               << ASN_OBJECTIDENTIFIER >> \o LenOctets(Len(content)) \o content,
               p.cb < bytesNeeded)

\* CRYPT_AsnEncodeOid after the arc loop: firstByte = val1 * 40 + val2
OidFromArcs(f, arcs, p) ==
    IF ~arcs.ok THEN Inner(FALSE, CRYPT_E_ASN1_ERROR, p.cb, << >>, FALSE)
    ELSE OidEmit(<< (f.val1 * 40 + f.val2) % 256 >> \o arcs.out,
                 1 + Len(arcs.out) + 1 + LenBytesNeeded(1 + Len(arcs.out)), p)

\* CRYPT_AsnEncodeOid after its first sscanf
OidFromScan(s, f, p) ==
    IF f.count # 2 THEN Inner(FALSE, CRYPT_E_ASN1_ERROR, p.cb, << >>, FALSE)
    ELSE OidFromArcs(f, OidArcLoop(s, f.firstPos, << >>), p)

\* CRYPT_AsnEncodeOid(pszObjId, pbEncoded, pcbEncoded)
CRYPT_AsnEncodeOid(pszObjId, p) ==
    IF pszObjId = Null THEN OidEmit(<< >>, 2, p)
    ELSE OidFromScan(Deref(pszObjId), SscanfFirstTwo(Deref(pszObjId)), p)

\* (w << 7) | b on 32 bits, for b < 128
WShl7Or(w, b) ==
    << (w[1] % 2) * 128 + (w[2] \div 2),
       (w[2] % 2) * 128 + (w[3] \div 2),
       (w[3] % 2) * 128 + (w[4] \div 2),
       (w[4] % 2) * 128 + b >>

\* the unsigned w divided by 10: quotient q and remainder r
WDivMod10(w) ==
    LET c1 == w[1]
        c2 == (c1 % 10) * 256 + w[2]
        c3 == (c2 % 10) * 256 + w[3]
        c4 == (c3 % 10) * 256 + w[4]
    IN  [q |-> << c1 \div 10, c2 \div 10, c3 \div 10, c4 \div 10 >>, r |-> c4 % 10]

\* the decimal digits of the unsigned w, none for 0
RECURSIVE DecDigits(_)
DecDigits(w) ==
    IF w = ZeroWord THEN << >>
    ELSE DecDigits(WDivMod10(w).q) \o << CH_0 + WDivMod10(w).r >>

\* the characters printf's %d gives the int w
FmtD(w) ==
    IF w = ZeroWord THEN << CH_0 >>
    ELSE IF WIsNeg(w) THEN << CH_MINUS >> \o DecDigits(WNeg(w))
    ELSE DecDigits(w)

\* the first len - 1 characters of s: what snprintf(buf, len, ...) leaves
Truncated(s, len) == IF Len(s) <= len - 1 THEN s ELSE SubSeq(s, 1, len - 1)

\* the byte at C index i of the memory mem; 0 outside the modelled memory
MemAt(mem, i) == IF i < Len(mem) THEN mem[i + 1] ELSE 0

\* "%d.%d" of the first content octet b: b / 40 and b - (b / 40) * 40
OidFirstTwo(b) ==
    FmtD(WFromNat(b \div 40)) \o << CH_DOT >> \o FmtD(WFromNat(b - (b \div 40) * 40))

SIZEOF_firstTwo == 6

SIZEOF_str == 9

\* one arc of the decoder's loop, from content offset o (C index base + o
\* of mem): the octets with the high bit set, then the last one
RECURSIVE OidArcHigh(_, _, _, _, _)
OidArcHigh(mem, base, o, dataLen, val) ==
    IF o < dataLen /\ MemAt(mem, base + o) >= 128
    THEN OidArcHigh(mem, base, o + 1, dataLen,
                    WShl7Or(val, MemAt(mem, base + o) % 128))
    ELSE [o |-> o, val |-> val]

\* the decoder's loop over the arcs after the first content octet: ok is
\* FALSE when an arc runs into the end of the content (CRYPT_E_ASN1_CORRUPT)
RECURSIVE OidArcs(_, _, _, _, _)
OidArcs(mem, base, o, dataLen, arcs) ==
    IF o >= dataLen THEN [ok |-> TRUE, arcs |-> arcs]
    ELSE LET h == OidArcHigh(mem, base, o, dataLen, ZeroWord)
         IN  IF h.o >= dataLen
             THEN [ok |-> FALSE, arcs |-> arcs]
             ELSE OidArcs(mem, base, h.o + 1, dataLen,
                          Append(arcs, WShl7Or(h.val, MemAt(mem, base + h.o))))

\* the characters of ".%d" for each arc, one after the other; each cut to
\* what a buffer of len characters keeps when len > 0
RECURSIVE OidArcStrings(_, _)
OidArcStrings(arcs, len) ==
    IF arcs = << >> THEN << >>
    ELSE (IF len > 0 THEN Truncated(<< CH_DOT >> \o FmtD(Head(arcs)), len)
          ELSE << CH_DOT >> \o FmtD(Head(arcs)))
         \o OidArcStrings(Tail(arcs), len)

\* CRYPT_AsnDecodeOid(pbEncoded, cbEncoded, dwFlags, pszObjId, pcbObjId).
\* str is the string written at pszObjId (Null: nothing written), over says
\* that its characters and NUL went beyond the p.cb bytes of the buffer.
CRYPT_AsnDecodeOid(p) ==
    LET g == CRYPT_GetLen(p.mem, p.cbEncoded)
        none == [ret |-> FALSE, err |-> g.err, cb |-> p.cb, str |-> Null,
                 over |-> FALSE]
    IN  IF ~g.ret THEN none
        ELSE IF At(p.mem, 0) # ASN_OBJECTIDENTIFIER
        THEN [none EXCEPT !.err = CRYPT_E_ASN1_BADTAG]
        ELSE LET lenBytes == GET_LEN_BYTES(At(p.mem, 1)) % 256
                 dataLen == WVal(g.len)
                 base == 1 + lenBytes
                 firstTwo == Truncated(OidFirstTwo(MemAt(p.mem, base)), SIZEOF_firstTwo)
                 a == OidArcs(p.mem, base, 1, dataLen, << >>)
                 bytesNeeded == Len(firstTwo) + 1 + Len(OidArcStrings(a.arcs, SIZEOF_str))
                 written == OidFirstTwo(MemAt(p.mem, base))
                            \o (IF a.ok THEN OidArcStrings(a.arcs, 0) ELSE << >>)
             IN  IF dataLen = 0
                 THEN [ret |-> TRUE, err |-> NOERROR, cb |-> 0, str |-> Null,
                       over |-> FALSE]
                 ELSE IF ~p.hasBuf
                 THEN [ret |-> a.ok,
                       err |-> IF a.ok THEN NOERROR ELSE CRYPT_E_ASN1_CORRUPT,
                       cb |-> bytesNeeded, str |-> Null, over |-> FALSE]
                 ELSE IF p.cb < bytesNeeded
                 THEN [ret |-> FALSE, err |-> ERROR_MORE_DATA, cb |-> bytesNeeded,
                       str |-> Null, over |-> FALSE]
                 ELSE [ret |-> a.ok,
                       err |-> IF a.ok THEN NOERROR ELSE CRYPT_E_ASN1_CORRUPT,
                       cb |-> bytesNeeded, str |-> Ptr(written),
                       over |-> Len(written) + 1 > p.cb]

-----------------------------------------------------------------------------
(* The OID encoder followed by the two phases of the OID decoder on the    *)
(* bytes it wrote (C6, C7).                                                *)

\* the number of arcs an OID has after its first two
MaxMoreArcs == 2

\* the first two arcs: a first arc of 0, 1 or 2; a second arc below 40, or
\* any that keeps 40 * arc1 + arc2 in an octet under the first arc 2
FirstTwoArcs ==
    { << a, b >> : a \in 0..2, b \in { 0, 2, 5, 39 } }
        \cup { << 2, b >> : b \in { 40, 100, 175 } }

\* the later arcs, on both sides of the encoder's thresholds
MoreArcs == { 0, 127, 128, 840, 16383, 16384, 113549, 268435456 }

OidArcLists == { f \o m : f \in FirstTwoArcs, m \in SeqsUpTo(MoreArcs, MaxMoreArcs) }

\* the dotted-decimal string of the arcs
RECURSIVE DottedDecimal(_)
DottedDecimal(arcs) ==
    IF Len(arcs) = 1 THEN FmtD(WFromNat(Head(arcs)))
    ELSE FmtD(WFromNat(Head(arcs))) \o << CH_DOT >> \o DottedDecimal(Tail(arcs))

\* the capacity the OID calls that write are given
OidCap == 16

OidEncParams ==
    { [hasBuf |-> FALSE, cb |-> 0, buf0 |-> 0] }
        \cup { [hasBuf |-> TRUE, cb |-> OidCap, buf0 |-> b] : b \in { 0, 4, 255 } }

InitOid ==
    /\ pc = "ready"
    /\ call \in
            { [codec |-> "EncodeOid", arcs |-> a, info |-> Ptr(DottedDecimal(a)), p |-> e]
                : a \in OidArcLists, e \in OidEncParams }
    /\ res = NoRes
    /\ prev = NoRes
    /\ loc = NoLoc

EncodeOid ==
    /\ pc = "ready"
    /\ res' = CRYPT_AsnEncodeOid(call.info, call.p)
    /\ pc' = IF res'.ret /\ call.p.hasBuf THEN "encoded" ELSE "returned"
    /\ UNCHANGED << call, prev, loc >>

\* the decoder's call on the encoder's bytes
OidDecodeCall(bytes, hasBuf, cb) ==
    [mem |-> bytes, cbEncoded |-> Len(bytes), hasBuf |-> hasBuf, cb |-> cb]

\* Phase A of the decoder on the bytes the encoder wrote
DecodeOidSize ==
    /\ pc = "encoded"
    /\ prev' = res
    /\ loc' = CRYPT_AsnDecodeOid(OidDecodeCall(res.out, FALSE, 0))
    /\ res' = loc'
    /\ pc' = IF loc'.ret THEN "sized" ELSE "returned"
    /\ UNCHANGED call

\* Phase B of the decoder, with the capacity Phase A reported
DecodeOidWrite ==
    /\ pc = "sized"
    /\ res' = CRYPT_AsnDecodeOid(OidDecodeCall(prev.out, TRUE, loc.cb))
    /\ pc' = "returned"
    /\ UNCHANGED << call, prev, loc >>

NextOid ==
    \/ EncodeOid
    \/ DecodeOidSize
    \/ DecodeOidWrite

SpecOid == InitOid /\ [][NextOid]_vars

\* the base-128 octets of n, most significant first, the high bit set on
\* all but the last
RECURSIVE Base128(_, _)
Base128(n, last) ==
    (IF n >= 128 THEN Base128(n \div 128, FALSE) ELSE << >>)
        \o << (n % 128) + (IF last THEN 0 ELSE 128) >>

RECURSIVE Base128All(_)
Base128All(arcs) ==
    IF arcs = << >> THEN << >> ELSE Base128(Head(arcs), TRUE) \o Base128All(Tail(arcs))

\* the content octets X.690 gives the arcs: 40 * arc1 + arc2, then arcs 3..k
OidContent(arcs) ==
    << 40 * arcs[1] + arcs[2] >> \o Base128All(SubSeq(arcs, 3, Len(arcs)))

\* C6: the OID encoder's content is the octet 40 * arc1 + arc2 followed by
\* the base-128 octets of arcs 3..k only, so an OID of two arcs has one
\* content octet.
C6_OidEncoding ==
    (pc = "encoded") =>
        res.out = << ASN_OBJECTIDENTIFIER, Len(OidContent(call.arcs)) >>
                      \o OidContent(call.arcs)

\* C7: decoding the OID encoder's output gives back the dotted-decimal
\* string that was encoded, for first arcs 0, 1 and 2.
C7_OidRoundTrip ==
    (pc = "returned" /\ prev.ret) => (res.ret /\ res.str = call.info)

-----------------------------------------------------------------------------
(* Names: attribute values, attributes and relative distinguished names.   *)
(* An inner encoder call p carries hasBuf, cb and, for what the OID        *)
(* encoder reads, buf0 (the byte the buffer held where the OID goes).      *)

CERT_RDN_ANY_TYPE == 0

CERT_RDN_NUMERIC_STRING == 3

CERT_RDN_PRINTABLE_STRING == 4

CERT_RDN_IA5_STRING == 7

\* the tag CRYPT_AsnEncodeNameValue gives a value type it knows
NameValueTag(dwValueType) ==
    IF dwValueType = CERT_RDN_NUMERIC_STRING THEN ASN_NUMERICSTRING
    ELSE IF dwValueType = CERT_RDN_PRINTABLE_STRING THEN ASN_PRINTABLESTRING
    ELSE ASN_IA5STRING

\* CRYPT_AsnEncodeNameValue from line 558 on
NameValueEmit(value, bytesNeeded, p) ==
    IF ~p.hasBuf THEN Inner(TRUE, NOERROR, bytesNeeded, << >>, FALSE)
    ELSE IF p.cb < bytesNeeded
    THEN Inner(FALSE, ERROR_MORE_DATA, bytesNeeded, << >>, FALSE)
    ELSE Inner(TRUE, NOERROR, bytesNeeded,
               << NameValueTag(value.dwValueType) >>
                   \o LenOctets(Len(value.Value)) \o value.Value, FALSE)

\* CRYPT_AsnEncodeNameValue(value, pbEncoded, pcbEncoded)
CRYPT_AsnEncodeNameValue(value, p) ==
    IF value.dwValueType = CERT_RDN_ANY_TYPE
    THEN Inner(FALSE, ERROR_INVALID_PARAMETER, p.cb, << >>, FALSE)
    ELSE IF value.dwValueType \notin { CERT_RDN_NUMERIC_STRING,
                CERT_RDN_PRINTABLE_STRING, CERT_RDN_IA5_STRING }
    THEN Inner(FALSE, NOERROR, p.cb, << >>, FALSE)
    ELSE NameValueEmit(value,
             1 + LenBytesNeeded(Len(value.Value)) + Len(value.Value), p)

\* a sizing call of an inner encoder
SizingCall == [hasBuf |-> FALSE, cb |-> 0, buf0 |-> 0]

\* a writing call of an inner encoder
WritingCall(cb, buf0) == [hasBuf |-> TRUE, cb |-> cb, buf0 |-> buf0]

\* CRYPT_AsnEncodeRdnAttr after its second call of the value encoder
RdnAttrValue(inner, bytesNeeded, oid, val) ==
    Inner(val.ret, val.err, bytesNeeded,
          << ASN_CONSTRUCTOR + ASN_SEQUENCE >> \o LenOctets(inner)
              \o oid.out \o val.out,
          oid.over)

\* CRYPT_AsnEncodeRdnAttr after its second call of the OID encoder
RdnAttrOid(attr, inner, bytesNeeded, oid) ==
    IF ~oid.ret
    THEN Inner(FALSE, oid.err, bytesNeeded,
               << ASN_CONSTRUCTOR + ASN_SEQUENCE >> \o LenOctets(inner), FALSE)
    ELSE RdnAttrValue(inner, bytesNeeded, oid,
             CRYPT_AsnEncodeNameValue(attr, WritingCall(inner - oid.cb, 0)))

\* CRYPT_AsnEncodeRdnAttr from line 605 on
RdnAttrEmit(attr, inner, bytesNeeded, p) ==
    IF ~p.hasBuf THEN Inner(TRUE, NOERROR, bytesNeeded, << >>, FALSE)
    ELSE IF p.cb < bytesNeeded
    THEN Inner(FALSE, ERROR_MORE_DATA, bytesNeeded, << >>, FALSE)
    ELSE RdnAttrOid(attr, inner, bytesNeeded,
             CRYPT_AsnEncodeOid(attr.pszObjId, WritingCall(inner, p.buf0)))

\* CRYPT_AsnEncodeRdnAttr after its two sizing calls
RdnAttrSized(attr, oidSize, valSize, p) ==
    IF ~oidSize.ret THEN Inner(FALSE, oidSize.err, p.cb, << >>, FALSE)
    ELSE IF ~valSize.ret THEN Inner(FALSE, valSize.err, p.cb, << >>, FALSE)
    ELSE RdnAttrEmit(attr, oidSize.cb + valSize.cb,
             oidSize.cb + valSize.cb + 1 + LenBytesNeeded(oidSize.cb + valSize.cb), p)

\* CRYPT_AsnEncodeRdnAttr(attr, pbEncoded, pcbEncoded); attr also stands
\* for the CERT_NAME_VALUE that begins at its dwValueType
CRYPT_AsnEncodeRdnAttr(attr, p) ==
    RdnAttrSized(attr, CRYPT_AsnEncodeOid(attr.pszObjId, SizingCall),
                 CRYPT_AsnEncodeNameValue(attr, SizingCall), p)

\* memcmp(a, b, n): the difference of the first bytes that differ
RECURSIVE memcmp(_, _, _)
memcmp(a, b, n) ==
    IF n = 0 THEN 0
    ELSE IF Head(a) # Head(b) THEN Head(a) - Head(b)
    ELSE memcmp(Tail(a), Tail(b), n - 1)

\* a comparison that looks at the lengths only
BLOBCompLengths(a, b) == Len(a) - Len(b)

\* BLOBComp(l, r) on the blobs' bytes
BLOBCompRet(ret, a, b) == IF ret # 0 THEN ret ELSE Len(a) - Len(b)

BLOBComp(a, b) == BLOBCompRet(memcmp(a, b, Min(Len(a), Len(b))), a, b)

\* qsort(blobs, n, sizeof(CRYPT_DER_BLOB), BLOBComp): the orders it may
\* leave the blobs in, every arrangement of them that BLOBComp finds sorted
qsort(blobs) ==
    LET n == Len(blobs)
        perms == { f \in [1..n -> 1..n] : \A i, j \in 1..n : f[i] = f[j] => i = j }
        arranged == { [i \in 1..n |-> blobs[f[i]]] : f \in perms }
    IN  { s \in arranged : \A i, j \in 1..n : i < j => BLOBComp(s[i], s[j]) <= 0 }

\* the bytes of the blobs one after the other
RECURSIVE Concat(_)
Concat(blobs) == IF blobs = << >> THEN << >> ELSE Head(blobs) \o Concat(Tail(blobs))

\* the sum of the sizes the outcomes report
RECURSIVE SumCb(_)
SumCb(rs) == IF rs = << >> THEN 0 ELSE Head(rs).cb + SumCb(Tail(rs))

\* the bytes a scratch buffer from HeapAlloc may hold where the OID goes
HeapBytes == { 0, 255 }

\* the least number of the set S
Least(S) == CHOOSE i \in S : \A j \in S : i <= j

\* an outcome of the Rdn encoder with nothing written
RdnNone(ret, err, cb) ==
    [ret |-> ret, err |-> err, cb |-> cb, out |-> << >>, members |-> << >>,
     over |-> FALSE]

\* CRYPT_AsnEncodeRdn from line 702 on, blobs being the outcomes of the
\* encoder of each attribute into its scratch buffer: the set of outcomes
RdnSorted(inner, bytesNeeded, blobs, failed) ==
    IF failed # { }
    THEN { RdnNone(FALSE, blobs[Least(failed)].err, bytesNeeded) }
    ELSE { [ret |-> TRUE, err |-> NOERROR, cb |-> bytesNeeded,
            out |-> << ASN_CONSTRUCTOR + ASN_SETOF >> \o LenOctets(inner) \o Concat(s),
            members |-> s, over |-> FALSE]
           : s \in qsort([i \in 1..Len(blobs) |-> blobs[i].out]) }

RdnBlobs(inner, bytesNeeded, blobs) ==
    RdnSorted(inner, bytesNeeded, blobs, { i \in 1..Len(blobs) : ~blobs[i].ret })

\* CRYPT_AsnEncodeRdn from line 681 on
RdnEmit(rdn, sizes, inner, bytesNeeded, p) ==
    IF ~p.hasBuf THEN { RdnNone(TRUE, NOERROR, bytesNeeded) }
    ELSE IF p.cb < bytesNeeded THEN { RdnNone(FALSE, ERROR_MORE_DATA, bytesNeeded) }
    ELSE UNION { RdnBlobs(inner, bytesNeeded,
                     [i \in 1..Len(rdn) |->
                         CRYPT_AsnEncodeRdnAttr(rdn[i], WritingCall(sizes[i].cb, heap[i]))])
                 : heap \in [1..Len(rdn) -> HeapBytes] }

\* CRYPT_AsnEncodeRdn after its sizing loop
RdnSized(rdn, sizes, bad, p) ==
    IF bad # { } THEN { RdnNone(FALSE, sizes[Least(bad)].err, p.cb) }
    ELSE RdnEmit(rdn, sizes, SumCb(sizes),
                 SumCb(sizes) + 1 + LenBytesNeeded(SumCb(sizes)), p)

RdnSizes(rdn, sizes, p) ==
    RdnSized(rdn, sizes, { i \in 1..Len(sizes) : ~sizes[i].ret }, p)

\* CRYPT_AsnEncodeRdn(rdn, pbEncoded, pcbEncoded): the set of its outcomes.
\* rdn is the array rgRDNAttr (of cRDNAttr attributes); p.heapOk is the
\* answer of the first HeapAlloc.  members are the blobs in the order
\* they were written.
CRYPT_AsnEncodeRdn(rdn, p) ==
    IF Len(rdn) > 0 /\ ~p.heapOk THEN { RdnNone(FALSE, ERROR_OUTOFMEMORY, p.cb) }
    ELSE RdnSizes(rdn,
             [i \in 1..Len(rdn) |-> CRYPT_AsnEncodeRdnAttr(rdn[i], SizingCall)], p)

-----------------------------------------------------------------------------
(* The Rdn encoder on two orderings of the same attributes (C9).           *)

\* the number of attributes of an RDN
MaxAttrs == 2

\* "2.5.4.3" and "2.5.4.10"
OID_CN == << 50, 46, 53, 46, 52, 46, 51 >>

OID_O == << 50, 46, 53, 46, 52, 46, 49, 48 >>

Attrs ==
    { [pszObjId |-> Ptr(o), dwValueType |-> t, Value |-> v]
        : o \in { OID_CN, OID_O },
          t \in { CERT_RDN_PRINTABLE_STRING, CERT_RDN_IA5_STRING },
          v \in { << 65 >>, << 65, 66 >> } }

\* the arrangements of the sequence s
Orderings(s) ==
    { [i \in 1..Len(s) |-> s[f[i]]]
        : f \in { g \in [1..Len(s) -> 1..Len(s)]
                    : \A i, j \in 1..Len(s) : g[i] = g[j] => i = j } }

RdnCap == 64

RdnParams ==
    { [hasBuf |-> FALSE, cb |-> 0, heapOk |-> TRUE],
      [hasBuf |-> TRUE, cb |-> RdnCap, heapOk |-> TRUE],
      [hasBuf |-> TRUE, cb |-> RdnCap, heapOk |-> FALSE] }

\* the call drawn: an RDN of at most MaxAttrs attributes and one of its
\* arrangements
InitRdn ==
    /\ pc = "ready"
    /\ call \in
            UNION { { [codec |-> "EncodeRdn", info |-> a, other |-> b, p |-> e]
                        : b \in Orderings(a), e \in RdnParams }
                    : a \in SeqsUpTo(Attrs, MaxAttrs) }
    /\ res = NoRes
    /\ prev = NoRes
    /\ loc = NoLoc

\* the RDN call.info is encoded
EncodeRdn ==
    /\ pc = "ready"
    /\ \E o \in CRYPT_AsnEncodeRdn(call.info, call.p) :
          /\ res' = o
          /\ pc' = IF o.ret /\ call.p.hasBuf THEN "encoded" ELSE "returned"
    /\ UNCHANGED << call, prev, loc >>

\* the RDN call.other, the same attributes in another order, is encoded
EncodeRdnOther ==
    /\ pc = "encoded"
    /\ prev' = res
    /\ \E o \in CRYPT_AsnEncodeRdn(call.other, call.p) : res' = o
    /\ pc' = "returned"
    /\ UNCHANGED << call, loc >>

NextRdn == EncodeRdn \/ EncodeRdnOther

SpecRdn == InitRdn /\ [][NextRdn]_vars

\* a comes before b, or is b, in the lexicographic order of octets, the
\* shorter first when one is the beginning of the other
RECURSIVE LexLeq(_, _)
LexLeq(a, b) ==
    IF a = << >> THEN TRUE
    ELSE IF b = << >> THEN FALSE
    ELSE IF Head(a) # Head(b) THEN Head(a) < Head(b)
    ELSE LexLeq(Tail(a), Tail(b))

\* both orderings were encoded into the caller's buffer
BothEncoded == pc = "returned" /\ prev.ret /\ res.ret

\* C9: two orderings of the same attributes encode to the same bytes, and
\* the members are written in ascending lexicographic order of their DER
\* bytes.
C9_RdnCanonical ==
    BothEncoded =>
        /\ res.out = prev.out
        /\ \A i, j \in 1..Len(res.members) :
              i < j => LexLeq(res.members[i], res.members[j])

\* two different orderings were encoded, and one of them was not written
\* in the order it was given
C9_Witness ==
    /\ BothEncoded
    /\ call.info # call.other
    /\ Len(res.members) >= 2
    /\ res.members[1] # res.members[2]
    /\ res.out = prev.out

-----------------------------------------------------------------------------
(* The Name encoder.                                                       *)

ASN_SEQUENCEOF == 16

\* the values the local size of CRYPT_AsnEncodeName may hold at line 772
\* when no RDN has set it
UninitSize == { 0, 255 }

\* the sizing call of the Rdn encoder, which has one outcome
RdnSizeOf(rdn, heapOk) ==
    CHOOSE r \in CRYPT_AsnEncodeRdn(rdn, [hasBuf |-> FALSE, cb |-> 0, heapOk |-> heapOk]) : TRUE

\* the loop of CRYPT_AsnEncodeName at lines 774-784 from RDN i on, out
\* being the bytes written so far: the set of its outcomes
RECURSIVE NameRdnLoop(_, _, _, _, _)
NameRdnLoop(rgRDN, i, bytesNeeded, out, heapOk) ==
    IF i > Len(rgRDN) THEN { [ret |-> TRUE, err |-> NOERROR, out |-> out] }
    ELSE UNION { IF r.ret
                 THEN NameRdnLoop(rgRDN, i + 1, bytesNeeded - r.cb, out \o r.out, heapOk)
                 ELSE { [ret |-> FALSE, err |-> r.err, out |-> out] }
                 : r \in CRYPT_AsnEncodeRdn(rgRDN[i],
                            [hasBuf |-> TRUE, cb |-> bytesNeeded, heapOk |-> heapOk]) }

\* CRYPT_AsnEncodeName from line 768 on: e is the answer of the shim and l
\* of the CRYPT_EncodeLen call at line 772, whose result is not looked at.
\* When that call fails, pbEncoded moves on by the size it was given and
\* the bytes in between keep what the buffer held (0 here).
NameWrite(rgRDN, bytesNeeded, e, l, heapOk) ==
    IF ~e.ret THEN { EncWritten(e, << >>) }
    ELSE { [ret |-> o.ret, err |-> o.err, cb |-> e.cb, out |-> o.out]
           : o \in NameRdnLoop(rgRDN, 1, bytesNeeded,
                       << ASN_CONSTRUCTOR + ASN_SEQUENCEOF >>
                           \o (IF l.ret THEN l.out ELSE [k \in 1..l.cb |-> 0]),
                       heapOk) }

\* CRYPT_AsnEncodeName from line 758 on; stale are the values size may
\* hold when it is passed as the capacity at line 772
NameEmit(rgRDN, inner, bytesNeeded, stale, p) ==
    IF ~p.hasBuf THEN { EncSized(bytesNeeded) }
    ELSE UNION { NameWrite(rgRDN, bytesNeeded,
                     CRYPT_EncodeEnsureSpace(p.alloc, p.allocOk, p.cb, bytesNeeded),
                     CRYPT_EncodeLen(inner, TRUE, size), p.heapOk)
                 : size \in stale }

\* CRYPT_AsnEncodeName after its sizing loop
NameSized(rgRDN, sizes, bad, p) ==
    IF bad # { } THEN { EncFail(sizes[Least(bad)].err, p) }
    ELSE NameEmit(rgRDN, SumCb(sizes),
                  SumCb(sizes) + 1 + LenBytesNeeded(SumCb(sizes)),
                  IF sizes = << >> THEN UninitSize ELSE { sizes[Len(sizes)].cb }, p)

NameSizes(rgRDN, sizes, p) ==
    NameSized(rgRDN, sizes, { i \in 1..Len(sizes) : ~sizes[i].ret }, p)

\* CRYPT_AsnEncodeName(pvStructInfo, dwFlags, pEncodePara, pbEncoded,
\* pcbEncoded): the set of its outcomes.  info is Null or the pointer to
\* the array rgRDN (of cRDN RDNs).
CRYPT_AsnEncodeName(info, p) ==
    IF info = Null THEN { EncFail(STATUS_ACCESS_VIOLATION, p) }
    ELSE NameSizes(Deref(info),
             [i \in 1..Len(Deref(info)) |-> RdnSizeOf(Deref(info)[i], p.heapOk)], p)

-----------------------------------------------------------------------------
(* The output memory of a decoder of names: the allocation at              *)
(* pvStructInfo.  b are its bytes and over says that a write went outside  *)
(* it.  Places in it are offsets from pvStructInfo.  A pointer into it is  *)
(* stored as the DWORD OutBase + offset, a pointer into the encoded bytes  *)
(* as EncBase + C index, NULL as 0; DWORDs and pointers are four bytes,    *)
(* least significant first.                                                *)

OutBase == 4096

EncBase == 8192

DwordBytes(n) ==
    << n % 256, (n \div 256) % 256, (n \div 65536) % 256, (n \div 16777216) % 256 >>

DwordVal(b) == ((b[4] * 256 + b[3]) * 256 + b[2]) * 256 + b[1]

\* memcpy(pvStructInfo + at, bytes, Len(bytes))
Poke(m, at, bytes) ==
    [b |-> [i \in 1..Len(m.b) |->
              IF at < i /\ i <= at + Len(bytes) THEN bytes[i - at] ELSE m.b[i]],
     over |-> m.over \/ at < 0 \/ at + Len(bytes) > Len(m.b)]

\* the n bytes at pvStructInfo + at
Peek(m, at, n) ==
    [k \in 1..n |-> IF at + k >= 1 /\ at + k <= Len(m.b) THEN m.b[at + k] ELSE 0]

\* strlen(pvStructInfo + at)
RECURSIVE strlen(_, _)
strlen(m, at) ==
    IF at < 0 \/ at >= Len(m.b) THEN 0
    ELSE IF m.b[at + 1] = 0 THEN 0 ELSE 1 + strlen(m, at + 1)

\* the encoded bytes from C index pos on
From(enc, pos) == SubSeq(enc, pos + 1, Len(enc))

\* the input of an inner decoder: pbEncoded = enc + pos, cbEncoded, and the
\* flag CRYPT_DECODE_NOCOPY_FLAG
Sub(d, off) == [d EXCEPT !.pos = d.pos + off, !.cbEncoded = d.cbEncoded - off]

\* the outcome of an inner decoder: cb is the size cell, m the output
\* memory after the call
Dec(ret, err, cb, m) == [ret |-> ret, err |-> err, cb |-> cb, m |-> m]

-----------------------------------------------------------------------------
(* The decoders of name values and RDN attributes.                         *)

\* the value type CRYPT_AsnDecodeNameValue stores for a tag it knows
NameValueType(tag) ==
    IF tag = ASN_NUMERICSTRING THEN CERT_RDN_NUMERIC_STRING
    ELSE IF tag = ASN_PRINTABLESTRING THEN CERT_RDN_PRINTABLE_STRING
    ELSE CERT_RDN_IA5_STRING

\* CRYPT_AsnDecodeNameValue, lines 1588-1617: value is the place of the
\* CERT_NAME_VALUE (dwValueType, Value.cbData, Value.pbData), typed the
\* memory with dwValueType stored
NameValueStore(d, dataLen, lenBytes, bytesNeeded, value, typed) ==
    IF dataLen = 0
    THEN Dec(TRUE, NOERROR, bytesNeeded,
             Poke(typed, value + SIZEOF_DWORD, DwordBytes(0) \o DwordBytes(0)))
    ELSE IF d.nocopy
    THEN Dec(TRUE, NOERROR, bytesNeeded,
             Poke(typed, value + SIZEOF_DWORD,
                  DwordBytes(dataLen) \o DwordBytes(EncBase + d.pos + 1 + lenBytes)))
    ELSE IF Peek(typed, value + 2 * SIZEOF_DWORD, SIZEOF_DWORD) = DwordBytes(0)
    THEN Dec(FALSE, CRYPT_E_ASN1_INTERNAL, bytesNeeded,
             Poke(typed, value + SIZEOF_DWORD, DwordBytes(dataLen)))
    ELSE Dec(TRUE, NOERROR, bytesNeeded,
             Poke(Poke(typed, value + SIZEOF_DWORD, DwordBytes(dataLen)),
                  DwordVal(Peek(typed, value + 2 * SIZEOF_DWORD, SIZEOF_DWORD)) - OutBase,
                  ReadBytes(d.enc, d.pos + 1 + lenBytes, dataLen)))

\* CRYPT_AsnDecodeNameValue from line 1551 on
NameValueDecoded(d, dataLen, lenBytes, bytesNeeded, hasBuf, cb, value, m) ==
    IF ~hasBuf THEN Dec(TRUE, NOERROR, bytesNeeded, m)
    ELSE IF cb < bytesNeeded THEN Dec(FALSE, ERROR_MORE_DATA, bytesNeeded, m)
    ELSE NameValueStore(d, dataLen, lenBytes, bytesNeeded, value,
             Poke(m, value, DwordBytes(NameValueType(At(d.enc, d.pos)))))

\* CRYPT_AsnDecodeNameValue after CRYPT_GetLen answered g
NameValueLen(d, g, hasBuf, cb, value, m) ==
    IF ~g.ret THEN Dec(FALSE, g.err, cb, m)
    ELSE IF At(d.enc, d.pos) \notin { ASN_NUMERICSTRING, ASN_PRINTABLESTRING,
                                      ASN_IA5STRING }
    THEN Dec(FALSE, OSS_UNIMPLEMENTED, cb, m)
    ELSE NameValueDecoded(d, WVal(g.len), GET_LEN_BYTES(At(d.enc, d.pos + 1)) % 256,
             SIZEOF_CERT_NAME_VALUE
                 + (IF WVal(g.len) # 0 /\ ~d.nocopy THEN WVal(g.len) ELSE 0),
             hasBuf, cb, value, m)

\* CRYPT_AsnDecodeNameValue(pbEncoded, cbEncoded, dwFlags, value, pcbValue)
CRYPT_AsnDecodeNameValue(d, hasBuf, cb, value, m) ==
    NameValueLen(d, CRYPT_GetLen(From(d.enc, d.pos), d.cbEncoded), hasBuf, cb, value, m)

\* the call of the OID decoder on the input d
OidCall(d, hasBuf, cb) ==
    [mem |-> From(d.enc, d.pos), cbEncoded |-> d.cbEncoded, hasBuf |-> hasBuf,
     cb |-> cb]

\* CRYPT_AsnDecodeRdnAttr, lines 1707-1709: the OID decoder answered oid
\* for the string at pszObjId
RdnAttrOidStored(bytesNeeded, oid, pszObjId, m) ==
    Dec(oid.ret, oid.err, bytesNeeded,
        IF oid.str = Null THEN m ELSE Poke(m, pszObjId, Deref(oid.str) \o << 0 >>))

\* CRYPT_AsnDecodeRdnAttr, lines 1701-1709: attr is the place of the
\* CERT_RDN_ATTR (pszObjId, dwValueType, Value.cbData, Value.pbData) and
\* pszObjId the pointer chosen for the OID string
RdnAttrOidPlaced(d, objIdOfset, bytesNeeded, size, attr, pszObjId, m) ==
    RdnAttrOidStored(bytesNeeded,
        CRYPT_AsnDecodeOid(OidCall(Sub(d, objIdOfset), TRUE, bytesNeeded - size)),
        DwordVal(pszObjId) - OutBase, Poke(m, attr, pszObjId))

\* CRYPT_AsnDecodeRdnAttr, lines 1693-1713: val is the outcome of the value
\* decoder, originalData the pointer Value.pbData held before it
RdnAttrValueStored(d, objIdOfset, objIdLen, bytesNeeded, attr, originalData, val) ==
    IF ~val.ret THEN Dec(FALSE, val.err, bytesNeeded, val.m)
    ELSE IF objIdLen = 0
    THEN Dec(TRUE, NOERROR, bytesNeeded, Poke(val.m, attr, DwordBytes(0)))
    ELSE RdnAttrOidPlaced(d, objIdOfset, bytesNeeded, val.cb, attr,
             IF Peek(val.m, attr + 3 * SIZEOF_DWORD, SIZEOF_DWORD) = originalData
             THEN DwordBytes(DwordVal(originalData)
                      + DwordVal(Peek(val.m, attr + 2 * SIZEOF_DWORD, SIZEOF_DWORD)))
             ELSE originalData,
             val.m)

\* CRYPT_AsnDecodeRdnAttr from line 1668 on: sized is the outcome of the
\* sizing call of the value decoder
RdnAttrDecoded(d, objIdOfset, objIdLen, nameValueOffset, oidSize, sized, hasBuf, cb, attr, m) ==
    IF ~sized.ret THEN Dec(FALSE, sized.err, cb, m)
    ELSE IF ~hasBuf
    THEN Dec(TRUE, NOERROR, SIZEOF_CERT_RDN_ATTR + oidSize + sized.cb, m)
    ELSE IF cb < SIZEOF_CERT_RDN_ATTR + oidSize + sized.cb
    THEN Dec(FALSE, ERROR_MORE_DATA, SIZEOF_CERT_RDN_ATTR + oidSize + sized.cb, m)
    ELSE RdnAttrValueStored(d, objIdOfset, objIdLen,
             SIZEOF_CERT_RDN_ATTR + oidSize + sized.cb, attr,
             Peek(m, attr + 3 * SIZEOF_DWORD, SIZEOF_DWORD),
             CRYPT_AsnDecodeNameValue(Sub(d, nameValueOffset), TRUE,
                 SIZEOF_CERT_RDN_ATTR + oidSize + sized.cb, attr + SIZEOF_DWORD, m))

\* CRYPT_AsnDecodeRdnAttr, lines 1654-1667: g is the answer of CRYPT_GetLen
\* for the OID; the length of its length is taken from its tag octet
RdnAttrObjIdLen(d, objIdOfset, oidSize, g, nameValueOffset, hasBuf, cb, attr, m) ==
    IF ~g.ret THEN Dec(FALSE, g.err, cb, m)
    ELSE RdnAttrDecoded(d, objIdOfset, WVal(g.len), nameValueOffset, oidSize,
             CRYPT_AsnDecodeNameValue(Sub(d, nameValueOffset), FALSE, 0, 0, m),
             hasBuf, cb, attr, m)

\* CRYPT_AsnDecodeRdnAttr from line 1647 on: oid is the outcome of the
\* sizing call of the OID decoder
RdnAttrOidSized(d, objIdOfset, oid, g, hasBuf, cb, attr, m) ==
    IF ~oid.ret THEN Dec(FALSE, oid.err, cb, m)
    ELSE RdnAttrObjIdLen(d, objIdOfset, oid.cb, g,
             objIdOfset + WVal(g.len) + 1 + GET_LEN_BYTES(At(d.enc, d.pos + objIdOfset)),
             hasBuf, cb, attr, m)

\* CRYPT_AsnDecodeRdnAttr after CRYPT_GetLen answered g
RdnAttrLen(d, g, objIdOfset, hasBuf, cb, attr, m) ==
    IF ~g.ret THEN Dec(FALSE, g.err, cb, m)
    ELSE IF WVal(g.len) < 4 THEN Dec(FALSE, CRYPT_E_ASN1_EOD, cb, m)
    ELSE IF At(d.enc, d.pos) # ASN_CONSTRUCTOR + ASN_SEQUENCE
    THEN Dec(FALSE, CRYPT_E_ASN1_BADTAG, cb, m)
    ELSE RdnAttrOidSized(d, objIdOfset,
             CRYPT_AsnDecodeOid(OidCall(Sub(d, objIdOfset), FALSE, 0)),
             CRYPT_GetLen(From(d.enc, d.pos + objIdOfset), d.cbEncoded - objIdOfset),
             hasBuf, cb, attr, m)

\* CRYPT_AsnDecodeRdnAttr(pbEncoded, cbEncoded, dwFlags, attr, pcbAttr)
CRYPT_AsnDecodeRdnAttr(d, hasBuf, cb, attr, m) ==
    RdnAttrLen(d, CRYPT_GetLen(From(d.enc, d.pos), d.cbEncoded),
               IF d.cbEncoded > 1 THEN 1 + (GET_LEN_BYTES(At(d.enc, d.pos + 1)) % 256) ELSE 0,
               hasBuf, cb, attr, m)

-----------------------------------------------------------------------------
(* The decoders of RDNs and names.                                         *)

\* the locals of a counting loop when it ends
Counted(ret, err, count, bytesNeeded) ==
    [ret |-> ret, err |-> err, count |-> count, bytesNeeded |-> bytesNeeded]

\* the locals of a storing loop when it ends: m the output memory,
\* nextData the place the next trailer would go, regions the places
\* [lo, hi) each RDN wrote its attributes and their trailers to
Stored(ret, err, m, nextData, regions) ==
    [ret |-> ret, err |-> err, m |-> m, nextData |-> nextData, regions |-> regions]

\* the sizing loop of CRYPT_AsnDecodeRdn, lines 1742-1758, with ptr at
\* pbEncoded + off; end is 1 + lenBytes + dataLen
RECURSIVE RdnCountLoop(_, _, _, _, _)
RdnCountStep(d, off, end, cRDNAttr, bytesNeeded, a, g) ==
    IF ~a.ret THEN Counted(FALSE, a.err, cRDNAttr, bytesNeeded)
    ELSE IF ~g.ret THEN Counted(FALSE, g.err, cRDNAttr + 1, bytesNeeded + a.cb)
    ELSE RdnCountLoop(d,
             off + WVal(g.len) + 1 + GET_LEN_BYTES(At(d.enc, d.pos + off + 1)),
             end, cRDNAttr + 1, bytesNeeded + a.cb)

RdnCountLoop(d, off, end, cRDNAttr, bytesNeeded) ==
    IF off >= end THEN Counted(TRUE, NOERROR, cRDNAttr, bytesNeeded)
    ELSE RdnCountStep(d, off, end, cRDNAttr, bytesNeeded,
             CRYPT_AsnDecodeRdnAttr(Sub(d, off), FALSE, 0, 0, [b |-> << >>, over |-> FALSE]),
             CRYPT_GetLen(From(d.enc, d.pos + off), d.cbEncoded - off))

\* the storing loop of CRYPT_AsnDecodeRdn, lines 1786-1815: rgRDNAttr is
\* the place of the attribute array, l the locals i, off (ptr - pbEncoded),
\* bytesNeeded and nextData
RECURSIVE RdnStoreLoop(_, _, _, _, _, _)
\* lines 1808-1813: nextData has moved beyond the value
RdnStoreNext(d, end, cRDNAttr, rgRDNAttr, l, a, g, nextData) ==
    IF ~g.ret
    THEN Stored(FALSE, g.err, a.m,
                nextData + (IF Peek(a.m, rgRDNAttr + l.i * SIZEOF_CERT_RDN_ATTR, SIZEOF_DWORD)
                                 = DwordBytes(OutBase + nextData)
                            THEN strlen(a.m, nextData) + 1 ELSE 0), << >>)
    ELSE RdnStoreLoop(d, end, cRDNAttr, rgRDNAttr,
             [i |-> l.i + 1,
              off |-> l.off + WVal(g.len) + 1
                        + GET_LEN_BYTES(At(d.enc, d.pos + l.off + 1)),
              bytesNeeded |-> l.bytesNeeded - a.cb,
              nextData |-> nextData
                  + (IF Peek(a.m, rgRDNAttr + l.i * SIZEOF_CERT_RDN_ATTR, SIZEOF_DWORD)
                          = DwordBytes(OutBase + nextData)
                     THEN strlen(a.m, nextData) + 1 ELSE 0)],
             a.m)

\* lines 1794-1803: a is the outcome of the attribute decoder
RdnStoreStep(d, end, cRDNAttr, rgRDNAttr, l, a, g) ==
    IF ~a.ret THEN Stored(FALSE, a.err, a.m, l.nextData, << >>)
    ELSE RdnStoreNext(d, end, cRDNAttr, rgRDNAttr, l, a, g,
             l.nextData
               + (IF Peek(a.m, rgRDNAttr + l.i * SIZEOF_CERT_RDN_ATTR + 3 * SIZEOF_DWORD,
                          SIZEOF_DWORD) = DwordBytes(OutBase + l.nextData)
                  THEN DwordVal(Peek(a.m,
                           rgRDNAttr + l.i * SIZEOF_CERT_RDN_ATTR + 2 * SIZEOF_DWORD,
                           SIZEOF_DWORD))
                  ELSE 0))

RdnStoreLoop(d, end, cRDNAttr, rgRDNAttr, l, m) ==
    IF l.i >= cRDNAttr \/ l.off >= end
    THEN Stored(TRUE, NOERROR, m, l.nextData, << >>)
    ELSE RdnStoreStep(d, end, cRDNAttr, rgRDNAttr, l,
             CRYPT_AsnDecodeRdnAttr(Sub(d, l.off), TRUE, l.bytesNeeded,
                 rgRDNAttr + l.i * SIZEOF_CERT_RDN_ATTR,
                 Poke(m, rgRDNAttr + l.i * SIZEOF_CERT_RDN_ATTR + 3 * SIZEOF_DWORD,
                      DwordBytes(OutBase + l.nextData))),
             CRYPT_GetLen(From(d.enc, d.pos + l.off), d.cbEncoded - l.off))

\* the outcome of CRYPT_AsnDecodeRdn: lo and hi bound the place it wrote
\* the attribute array and the trailers to
RdnDec(ret, err, cb, m, lo, hi) ==
    [ret |-> ret, err |-> err, cb |-> cb, m |-> m, lo |-> lo, hi |-> hi]

\* CRYPT_AsnDecodeRdn when its storing loop has ended with the locals s
RdnFilled(bytesNeeded, rgRDNAttr, s) ==
    RdnDec(s.ret, s.err, bytesNeeded, s.m, rgRDNAttr, s.nextData)

\* CRYPT_AsnDecodeRdn from line 1760 on: rdn is the place of the CERT_RDN
\* (cRDNAttr, rgRDNAttr), whose attribute array is put right behind it
\* whatever rgRDNAttr held
RdnCounted(d, lenBytes, end, c, hasBuf, cb, rdn, m) ==
    IF ~c.ret THEN RdnDec(FALSE, c.err, cb, m, 0, 0)
    ELSE IF ~hasBuf THEN RdnDec(TRUE, NOERROR, c.bytesNeeded, m, 0, 0)
    ELSE IF cb < c.bytesNeeded THEN RdnDec(FALSE, ERROR_MORE_DATA, c.bytesNeeded, m, 0, 0)
    ELSE IF c.count = 0
    THEN RdnDec(TRUE, NOERROR, c.bytesNeeded,
                Poke(m, rdn, DwordBytes(0) \o DwordBytes(0)), 0, 0)
    ELSE RdnFilled(c.bytesNeeded, rdn + SIZEOF_CERT_RDN,
             RdnStoreLoop(d, end, c.count, rdn + SIZEOF_CERT_RDN,
                 [i |-> 0, off |-> 1 + lenBytes, bytesNeeded |-> c.bytesNeeded,
                  nextData |-> rdn + SIZEOF_CERT_RDN + c.count * SIZEOF_CERT_RDN_ATTR],
                 Poke(m, rdn, DwordBytes(c.count)
                                 \o DwordBytes(OutBase + rdn + SIZEOF_CERT_RDN))))

\* CRYPT_AsnDecodeRdn after CRYPT_GetLen answered g
RdnLen(d, g, lenBytes, hasBuf, cb, rdn, m) ==
    IF ~g.ret THEN RdnDec(FALSE, g.err, cb, m, 0, 0)
    ELSE IF At(d.enc, d.pos) # ASN_CONSTRUCTOR + ASN_SETOF
    THEN RdnDec(FALSE, CRYPT_E_ASN1_BADTAG, cb, m, 0, 0)
    ELSE RdnCounted(d, lenBytes, 1 + lenBytes + WVal(g.len),
             RdnCountLoop(d, 1 + lenBytes, 1 + lenBytes + WVal(g.len), 0, SIZEOF_CERT_RDN),
             hasBuf, cb, rdn, m)

\* CRYPT_AsnDecodeRdn(pbEncoded, cbEncoded, dwFlags, rdn, pcbRdn)
CRYPT_AsnDecodeRdn(d, hasBuf, cb, rdn, m) ==
    RdnLen(d, CRYPT_GetLen(From(d.enc, d.pos), d.cbEncoded),
           IF d.cbEncoded > 1 THEN GET_LEN_BYTES(At(d.enc, d.pos + 1)) % 256 ELSE 0,
           hasBuf, cb, rdn, m)

\* the sizing loop of CRYPT_AsnDecodeName, lines 1848-1864
RECURSIVE NameCountLoop(_, _, _, _, _)
NameCountStep(d, off, end, cRDN, bytesNeeded, r, g) ==
    IF ~r.ret THEN Counted(FALSE, r.err, cRDN, bytesNeeded)
    ELSE IF ~g.ret THEN Counted(FALSE, g.err, cRDN + 1, bytesNeeded + r.cb)
    ELSE NameCountLoop(d,
             off + WVal(g.len) + 1 + GET_LEN_BYTES(At(d.enc, d.pos + off + 1)),
             end, cRDN + 1, bytesNeeded + r.cb)

NameCountLoop(d, off, end, cRDN, bytesNeeded) ==
    IF off >= end THEN Counted(TRUE, NOERROR, cRDN, bytesNeeded)
    ELSE NameCountStep(d, off, end, cRDN, bytesNeeded,
             CRYPT_AsnDecodeRdn(Sub(d, off), FALSE, 0, 0, [b |-> << >>, over |-> FALSE]),
             CRYPT_GetLen(From(d.enc, d.pos + off), d.cbEncoded - off))

\* the storing loop of CRYPT_AsnDecodeName, lines 1893-1912: rgRDN is the
\* place of the array of CERT_RDN
RECURSIVE NameStoreLoop(_, _, _, _, _, _, _)
NameStoreStep(d, end, cRDN, rgRDN, l, r, g, regions) ==
    IF ~r.ret THEN Stored(FALSE, r.err, r.m, l.nextData, regions)
    ELSE IF ~g.ret
    THEN Stored(FALSE, g.err, r.m, l.nextData + r.cb,
                Append(regions, [lo |-> r.lo, hi |-> r.hi]))
    ELSE NameStoreLoop(d, end, cRDN, rgRDN,
             [i |-> l.i + 1,
              off |-> l.off + WVal(g.len) + 1
                        + GET_LEN_BYTES(At(d.enc, d.pos + l.off + 1)),
              bytesNeeded |-> l.bytesNeeded - r.cb,
              nextData |-> l.nextData + r.cb],
             r.m, Append(regions, [lo |-> r.lo, hi |-> r.hi]))

NameStoreLoop(d, end, cRDN, rgRDN, l, m, regions) ==
    IF l.i >= cRDN \/ l.off >= end THEN Stored(TRUE, NOERROR, m, l.nextData, regions)
    ELSE NameStoreStep(d, end, cRDN, rgRDN, l,
             CRYPT_AsnDecodeRdn(Sub(d, l.off), TRUE, l.bytesNeeded,
                 rgRDN + l.i * SIZEOF_CERT_RDN,
                 Poke(m, rgRDN + l.i * SIZEOF_CERT_RDN + SIZEOF_DWORD,
                      DwordBytes(OutBase + l.nextData))),
             CRYPT_GetLen(From(d.enc, d.pos + l.off), d.cbEncoded - l.off),
             regions)

\* the outcome of CRYPT_AsnDecodeName: val is Null or the pointer to the
\* output memory
NameDec(ret, err, cb, val, regions) ==
    [ret |-> ret, err |-> err, cb |-> cb, val |-> val, regions |-> regions]

\* CRYPT_AsnDecodeName when its storing loop has ended with the locals s
NameFilled(cb, s) == NameDec(s.ret, s.err, cb, Ptr(s.m), s.regions)

\* CRYPT_AsnDecodeName from line 1878 on: e is the answer of the shim and
\* fresh the output memory as the call found it
NameSpace(d, lenBytes, end, c, e, fresh) ==
    IF ~e.ret THEN NameDec(FALSE, e.err, e.cb, Null, << >>)
    ELSE IF c.count = 0
    THEN NameDec(TRUE, NOERROR, e.cb,
                 Ptr(Poke(fresh, 0, DwordBytes(0) \o DwordBytes(0))), << >>)
    ELSE NameFilled(e.cb,
             NameStoreLoop(d, end, c.count, SIZEOF_CERT_NAME_INFO,
                 [i |-> 0, off |-> 1 + lenBytes, bytesNeeded |-> c.bytesNeeded,
                  nextData |-> SIZEOF_CERT_NAME_INFO + c.count * SIZEOF_CERT_RDN],
                 Poke(fresh, 0, DwordBytes(c.count)
                                   \o DwordBytes(OutBase + SIZEOF_CERT_NAME_INFO)),
                 << >>))

\* CRYPT_AsnDecodeName from line 1866 on.  The output memory is the
\* caller's p.cb bytes, or the bytesNeeded bytes the allocator gave, and
\* holds p.fill everywhere.
NameCounted(d, lenBytes, end, c, p) ==
    IF ~c.ret THEN NameDec(FALSE, c.err, p.cb, Null, << >>)
    ELSE IF ~p.hasBuf THEN NameDec(TRUE, NOERROR, c.bytesNeeded, Null, << >>)
    ELSE NameSpace(d, lenBytes, end, c,
             CRYPT_DecodeEnsureSpace(p.alloc, p.allocOk, p.cb, c.bytesNeeded),
             [b |-> [i \in 1..(IF p.alloc THEN c.bytesNeeded ELSE p.cb) |-> p.fill],
              over |-> FALSE])

\* CRYPT_AsnDecodeName after CRYPT_GetLen answered g
NameLen(d, g, lenBytes, p) ==
    IF ~g.ret THEN NameDec(FALSE, g.err, p.cb, Null, << >>)
    ELSE IF At(d.enc, 0) # ASN_CONSTRUCTOR + ASN_SEQUENCEOF
    THEN NameDec(FALSE, CRYPT_E_ASN1_BADTAG, p.cb, Null, << >>)
    ELSE NameCounted(d, lenBytes, 1 + lenBytes + WVal(g.len),
             NameCountLoop(d, 1 + lenBytes, 1 + lenBytes + WVal(g.len), 0,
                           SIZEOF_CERT_NAME_INFO),
             p)

\* CRYPT_AsnDecodeName(pbEncoded, cbEncoded, dwFlags, pDecodePara,
\* pvStructInfo, pcbStructInfo); p.mem is Null or the pointer to the
\* encoded bytes
CRYPT_AsnDecodeName(p) ==
    IF p.mem = Null THEN NameDec(FALSE, CRYPT_E_ASN1_EOD, p.cb, Null, << >>)
    ELSE NameLen([enc |-> Deref(p.mem), pos |-> 0, cbEncoded |-> p.cbEncoded,
                  nocopy |-> p.nocopy],
                 CRYPT_GetLen(Deref(p.mem), p.cbEncoded),
                 IF p.cbEncoded > 1 THEN GET_LEN_BYTES(At(Deref(p.mem), 1)) % 256 ELSE 0,
                 p)

-----------------------------------------------------------------------------
(* The Name encoder followed by the two phases of the Name decoder on the  *)
(* bytes it wrote (C10).                                                   *)

\* the number of RDNs of a name
MaxRdns == 2

\* CN = "Test", O = "Example" and CN = "A"
AttrCN ==
    [pszObjId |-> Ptr(OID_CN), dwValueType |-> CERT_RDN_PRINTABLE_STRING,
     Value |-> << 84, 101, 115, 116 >>]

AttrO ==
    [pszObjId |-> Ptr(OID_O), dwValueType |-> CERT_RDN_PRINTABLE_STRING,
     Value |-> << 69, 120, 97, 109, 112, 108, 101 >>]

AttrA ==
    [pszObjId |-> Ptr(OID_CN), dwValueType |-> CERT_RDN_IA5_STRING, Value |-> << 65 >>]

NameRdns == { << >>, << AttrCN >>, << AttrO >>, << AttrA >>, << AttrCN, AttrO >> }

NameCap == 128

NameEncParams ==
    { [hasBuf |-> FALSE, alloc |-> FALSE, allocOk |-> TRUE, cb |-> 0, heapOk |-> TRUE],
      [hasBuf |-> TRUE, alloc |-> FALSE, allocOk |-> TRUE, cb |-> NameCap, heapOk |-> TRUE],
      [hasBuf |-> TRUE, alloc |-> TRUE, allocOk |-> TRUE, cb |-> 0, heapOk |-> TRUE] }

\* the flags of the decoding calls and the byte their output memory holds
NameDecParams ==
    [nocopy : BOOLEAN, alloc : BOOLEAN, fill : { 0, 255 }]

InitName ==
    /\ pc = "ready"
    /\ call \in
            { [codec |-> "EncodeName", info |-> n, p |-> e, d |-> x]
                : n \in SeqsUpTo(NameRdns, MaxRdns), e \in NameEncParams, x \in NameDecParams }
    /\ res = NoRes
    /\ prev = NoRes
    /\ loc = NoLoc

\* the decoding call of the bytes enc with the flags of call.d
NameDecCall(enc, hasBuf, cb) ==
    [mem |-> Ptr(enc), cbEncoded |-> Len(enc), nocopy |-> call.d.nocopy,
     hasBuf |-> hasBuf, alloc |-> hasBuf /\ call.d.alloc, allocOk |-> TRUE,
     cb |-> cb, fill |-> call.d.fill]

\* the name call.info is encoded
EncodeName ==
    /\ pc = "ready"
    /\ \E o \in CRYPT_AsnEncodeName(Ptr(call.info), call.p) :
          /\ res' = o
          /\ pc' = IF o.ret /\ call.p.hasBuf THEN "encoded" ELSE "returned"
    /\ UNCHANGED << call, prev, loc >>

\* Phase A of the decoder on the bytes the encoder wrote
DecodeNameSize ==
    /\ pc = "encoded"
    /\ prev' = res
    /\ res' = CRYPT_AsnDecodeName(NameDecCall(res.out, FALSE, 0))
    /\ pc' = IF res'.ret THEN "sized" ELSE "returned"
    /\ UNCHANGED << call, loc >>

\* Phase B of the decoder with the capacity Phase A reported
DecodeNameWrite ==
    /\ pc = "sized"
    /\ res' = CRYPT_AsnDecodeName(NameDecCall(prev.out, TRUE, res.cb))
    /\ pc' = "decoded"
    /\ UNCHANGED << call, prev, loc >>

NextName == EncodeName \/ DecodeNameSize \/ DecodeNameWrite

SpecName == InitName /\ [][NextName]_vars

\* what a caller reads in the decoded CERT_NAME_INFO at pvStructInfo: the
\* RDNs, each the sequence of its attributes, Wild where a pointer or a
\* count leads outside the output memory
Wild == << -1 >>

WildAttr == [pszObjId |-> Ptr(Wild), dwValueType |-> -1, Value |-> Wild]

SmallDword(b) == IF b[3] = 0 /\ b[4] = 0 THEN b[1] + 256 * b[2] ELSE -1

OutOffset(m, b) ==
    IF SmallDword(b) >= OutBase /\ SmallDword(b) < OutBase + Len(m.b)
    THEN SmallDword(b) - OutBase ELSE -1

ViewValue(m, cbData, pbData) ==
    IF cbData = 0 THEN << >>
    ELSE IF cbData < 0 \/ pbData < 0 \/ pbData + cbData > Len(m.b) THEN Wild
    ELSE Peek(m, pbData, cbData)

ViewAttr(m, at) ==
    [pszObjId |-> IF Peek(m, at, SIZEOF_DWORD) = DwordBytes(0) THEN Null
                  ELSE IF OutOffset(m, Peek(m, at, SIZEOF_DWORD)) < 0 THEN Ptr(Wild)
                  ELSE Ptr(Peek(m, OutOffset(m, Peek(m, at, SIZEOF_DWORD)),
                                strlen(m, OutOffset(m, Peek(m, at, SIZEOF_DWORD))))),
     dwValueType |-> SmallDword(Peek(m, at + SIZEOF_DWORD, SIZEOF_DWORD)),
     Value |-> ViewValue(m, SmallDword(Peek(m, at + 2 * SIZEOF_DWORD, SIZEOF_DWORD)),
                         OutOffset(m, Peek(m, at + 3 * SIZEOF_DWORD, SIZEOF_DWORD)))]

ViewAttrs(m, cRDNAttr, rgRDNAttr) ==
    IF cRDNAttr = 0 THEN << >>
    ELSE IF cRDNAttr < 0 \/ rgRDNAttr < 0
            \/ rgRDNAttr + cRDNAttr * SIZEOF_CERT_RDN_ATTR > Len(m.b)
    THEN << WildAttr >>
    ELSE [j \in 1..cRDNAttr |-> ViewAttr(m, rgRDNAttr + (j - 1) * SIZEOF_CERT_RDN_ATTR)]

ViewRdn(m, at) ==
    ViewAttrs(m, SmallDword(Peek(m, at, SIZEOF_DWORD)),
              OutOffset(m, Peek(m, at + SIZEOF_DWORD, SIZEOF_DWORD)))

ViewRdns(m, cRDN, rgRDN) ==
    IF cRDN = 0 THEN << >>
    ELSE IF cRDN < 0 \/ rgRDN < 0 \/ rgRDN + cRDN * SIZEOF_CERT_RDN > Len(m.b)
    THEN << << WildAttr >> >>
    ELSE [i \in 1..cRDN |-> ViewRdn(m, rgRDN + (i - 1) * SIZEOF_CERT_RDN)]

ViewName(m) ==
    ViewRdns(m, SmallDword(Peek(m, 0, SIZEOF_DWORD)),
             OutOffset(m, Peek(m, SIZEOF_DWORD, SIZEOF_DWORD)))

\* the places [lo, hi) of the RDNs overlap neither the array of cRDN
\* CERT_RDN headers nor each other
RegionsApart(regions, cRDN) ==
    /\ \A i \in 1..Len(regions) :
          regions[i].lo < regions[i].hi =>
              \/ regions[i].hi <= SIZEOF_CERT_NAME_INFO
              \/ regions[i].lo >= SIZEOF_CERT_NAME_INFO + cRDN * SIZEOF_CERT_RDN
    /\ \A i, j \in 1..Len(regions) :
          i < j /\ regions[i].lo < regions[i].hi /\ regions[j].lo < regions[j].hi =>
              regions[i].hi <= regions[j].lo \/ regions[j].hi <= regions[i].lo

\* a name of at least two RDNs was encoded, and decoded with copying into
\* a buffer of the size Phase A reported
NameDecoded ==
    pc = "decoded" /\ res.ret /\ ~call.d.nocopy /\ Len(call.info) >= 2

\* C10: decoding (with copying, into enough room) the encoding of a name
\* of two or more RDNs gives as many RDNs in the order of the encoding,
\* every RDN with its own attributes (count, OID string, value type and
\* value bytes), and the attribute array and trailers of an RDN overlap
\* neither the RDN headers nor those of another RDN.
C10_NameDecodeKeepsRdns ==
    NameDecoded =>
        /\ Len(ViewName(Deref(res.val))) = Len(call.info)
        /\ \A i \in 1..Len(call.info) :
              ViewName(Deref(res.val))[i] \in Orderings(call.info[i])
        /\ RegionsApart(res.regions, Len(call.info))

-----------------------------------------------------------------------------
(* Bit strings and big integers.  A blob is the record of its bytes pbData *)
(* (cbData of them) and, for a bit blob, cUnusedBits.  An encoder call     *)
(* also carries adj, the byte the memory holds just outside the blob       *)
(* (before pbData[0] and behind pbData[cbData - 1]); the outcome says in   *)
(* rdOut whether the encoder has read it.                                   *)

\* blob->pbData[i], a C index that may be -1 or beyond cbData - 1
BlobAt(blob, adj, i) ==
    IF i >= 0 /\ i < Len(blob.pbData) THEN blob.pbData[i + 1] ELSE adj

\* the outcome of a blob encoder after CRYPT_EncodeEnsureSpace answered e;
\* rdSize says that it read outside the blob to find the size, rdWrite that
\* it does so when it writes
BlobWritten(e, bytes, rdSize, rdWrite) ==
    [ret |-> e.ret, err |-> e.err, cb |-> e.cb,
     out |-> IF e.ret THEN bytes ELSE << >>,
     rdOut |-> rdSize \/ (e.ret /\ rdWrite)]

\* the outcome of a blob encoder that wrote nothing
BlobUnwritten(ret, err, cb, rdOut) ==
    [ret |-> ret, err |-> err, cb |-> cb, out |-> << >>, rdOut |-> rdOut]

\* (BYTE)(0xff << n) for a shift count below the width of int
ShlMask(n) == IF n >= 8 THEN 0 ELSE (255 * (2 ^ n)) % 256

\* b & mask for a mask of the form 0xff << n
AndMask(b, mask) == IF mask = 0 THEN 0 ELSE b - (b % (256 - mask))

\* CRYPT_AsnEncodeBits, lines 837-847: the locals dataBytes and unusedBits
\* (a BYTE)
BitsLocals(blob) ==
    IF Len(blob.pbData) * 8 > blob.cUnusedBits
    THEN [dataBytes |-> (Len(blob.pbData) * 8 - blob.cUnusedBits) \div 8 + 1,
          unusedBits |-> IF blob.cUnusedBits >= 8
                         THEN (blob.cUnusedBits \div 8) % 256
                         ELSE blob.cUnusedBits]
    ELSE [dataBytes |-> 0, unusedBits |-> 0]

\* CRYPT_AsnEncodeBits, lines 864-874: the content octets
BitsContent(blob, adj, l) ==
    IF l.dataBytes = 0 THEN << >>
    ELSE [k \in 1..(l.dataBytes - 1) |-> BlobAt(blob, adj, k - 1)]
         \o << AndMask(BlobAt(blob, adj, l.dataBytes - 1), ShlMask(l.unusedBits)) >>

\* CRYPT_AsnEncodeBits(pvStructInfo, dwFlags, pEncodePara, pbEncoded,
\* pcbEncoded)
CRYPT_AsnEncodeBits(info, adj, p) ==
    IF info = Null THEN BlobUnwritten(FALSE, STATUS_ACCESS_VIOLATION, p.cb, FALSE)
    ELSE LET l == BitsLocals(Deref(info))
             bytesNeeded == 1 + LenBytesNeeded(l.dataBytes + 1) + l.dataBytes + 1
         IN  IF ~p.hasBuf THEN BlobUnwritten(TRUE, NOERROR, bytesNeeded, FALSE)
             ELSE BlobWritten(
                    CRYPT_EncodeEnsureSpace(p.alloc, p.allocOk, p.cb, bytesNeeded),
                    << ASN_BITSTRING >> \o LenOctets(l.dataBytes + 1)
                        \o << l.unusedBits >> \o BitsContent(Deref(info), adj, l),
                    FALSE, l.dataBytes > Len(Deref(info).pbData))

\* the loops of the integer encoders, lines 966-968, 978-980 and 1041-1043:
\* for (; significantBytes > 0 && pbData[significantBytes - 1] == b;
\* significantBytes--)
RECURSIVE LopOff(_, _, _)
LopOff(pbData, significantBytes, b) ==
    IF significantBytes > 0 /\ pbData[significantBytes] = b
    THEN LopOff(pbData, significantBytes - 1, b)
    ELSE significantBytes

\* CRYPT_AsnEncodeInteger, lines 960-987: the locals significantBytes, pad
\* and padByte; rdOut says that pbData[-1] was read
IntegerLocals(blob, adj) ==
    IF Len(blob.pbData) = 0
    THEN [significantBytes |-> 0, pad |-> FALSE, padByte |-> 0, rdOut |-> FALSE]
    ELSE IF blob.pbData[Len(blob.pbData)] >= 128
    THEN LET sb == LopOff(blob.pbData, Len(blob.pbData), 255)
         IN  [significantBytes |-> sb, pad |-> BlobAt(blob, adj, sb - 1) < 128,
              padByte |-> IF BlobAt(blob, adj, sb - 1) < 128 THEN 255 ELSE 0,
              rdOut |-> sb = 0]
    ELSE LET sb == LopOff(blob.pbData, Len(blob.pbData), 0)
         IN  [significantBytes |-> sb, pad |-> BlobAt(blob, adj, sb - 1) > 127,
              padByte |-> 0, rdOut |-> sb = 0]

\* CRYPT_AsnEncodeUnsignedInteger, lines 1037-1046
UnsignedIntegerLocals(blob, adj) ==
    IF Len(blob.pbData) = 0
    THEN [significantBytes |-> 0, pad |-> FALSE, padByte |-> 0, rdOut |-> FALSE]
    ELSE LET sb == LopOff(blob.pbData, Len(blob.pbData), 0)
         IN  [significantBytes |-> sb, pad |-> BlobAt(blob, adj, sb - 1) > 127,
              padByte |-> 0, rdOut |-> sb = 0]

\* the integer encoders from line 988 (1048) on; bytesNeeded is a BYTE
IntegerEmit(blob, l, p) ==
    LET content == (IF l.pad THEN << l.padByte >> ELSE << >>)
                   \o [k \in 1..l.significantBytes |->
                         blob.pbData[l.significantBytes + 1 - k]]
        bytesNeeded == (1 + LenBytesNeeded(Len(content)) + Len(content)) % 256
    IN  IF ~p.hasBuf THEN BlobUnwritten(TRUE, NOERROR, bytesNeeded, l.rdOut)
        ELSE BlobWritten(
               CRYPT_EncodeEnsureSpace(p.alloc, p.allocOk, p.cb, bytesNeeded),
               << ASN_INTEGER >> \o LenOctets(Len(content)) \o content, l.rdOut,
               FALSE)

\* CRYPT_AsnEncodeInteger(pvStructInfo, dwFlags, pEncodePara, pbEncoded,
\* pcbEncoded)
CRYPT_AsnEncodeInteger(info, adj, p) ==
    IF info = Null THEN BlobUnwritten(FALSE, STATUS_ACCESS_VIOLATION, p.cb, FALSE)
    ELSE IntegerEmit(Deref(info), IntegerLocals(Deref(info), adj), p)

\* CRYPT_AsnEncodeUnsignedInteger(pvStructInfo, dwFlags, pEncodePara,
\* pbEncoded, pcbEncoded)
CRYPT_AsnEncodeUnsignedInteger(info, adj, p) ==
    IF info = Null THEN BlobUnwritten(FALSE, STATUS_ACCESS_VIOLATION, p.cb, FALSE)
    ELSE IntegerEmit(Deref(info), UnsignedIntegerLocals(Deref(info), adj), p)

\* CRYPT_AsnEncodeEnumerated, lines 1094-1099: the tag is overwritten
EnumeratedTagged(r, p) ==
    IF r.ret /\ p.hasBuf /\ r.out # << >>
    THEN [r EXCEPT !.out = << ASN_ENUMERATED >> \o Tail(r.out)]
    ELSE r

\* CRYPT_AsnEncodeEnumerated(pvStructInfo, dwFlags, pEncodePara, pbEncoded,
\* pcbEncoded): info points to the sizeof(DWORD) bytes of the value, least
\* significant first
CRYPT_AsnEncodeEnumerated(info, adj, p) ==
    EnumeratedTagged(
        CRYPT_AsnEncodeUnsignedInteger(
            Ptr([pbData |-> SubSeq(Deref(info).pbData, 1, SIZEOF_DWORD),
                 cUnusedBits |-> 0]), adj, p), p)

\* the DWORD dataLen - 1 as a Word; 0 - 1 wraps to 0xffffffff
WMinusOne(dataLen) ==
    IF dataLen = 0 THEN << 255, 255, 255, 255 >> ELSE WFromNat(dataLen - 1)

\* BYTE mask = 0xff << blob->cUnusedBits in CRYPT_AsnDecodeBits, line 2007:
\* the count comes from the wire and a shift of an int by 32 or more is
\* undefined, so the build either shifts everything out or takes the count
\* modulo the width
BitsMasks(cUnusedBits) ==
    IF cUnusedBits < 32 THEN { ShlMask(cUnusedBits) }
    ELSE { 0, ShlMask(cUnusedBits % 32) }

\* CRYPT_AsnDecodeBits, lines 2009-2011: the bytes copied behind the record,
\* the last of them masked
BitsCopied(mem, from, n, mask) ==
    [k \in 1..n |-> IF k = n THEN AndMask(ReadBytes(mem, from, n)[k], mask)
                    ELSE ReadBytes(mem, from, n)[k]]

\* CRYPT_AsnDecodeBits, lines 1998-2014: the CRYPT_BIT_BLOB stored.  cbData
\* is a Word; pbData and data are as in CRYPT_AsnDecodeOctets.
BitsStored(p, dataLen, lenBytes, mask) ==
    [cbData |-> WMinusOne(dataLen),
     cUnusedBits |-> MemAt(p.mem, 1 + lenBytes),
     pbData |-> IF p.nocopy THEN [buf |-> "input", off |-> 2 + lenBytes]
                ELSE [buf |-> "output", off |-> SIZEOF_CRYPT_BIT_BLOB],
     data |-> IF p.nocopy \/ dataLen <= 1 THEN << >>
              ELSE BitsCopied(p.mem, 2 + lenBytes, dataLen - 1, mask)]

\* what CRYPT_AsnDecodeBits has read of the input when it returns TRUE: the
\* memcpy of 0xffffffff bytes of an empty BIT STRING leaves every memory
BitsRead(p, dataLen, lenBytes) ==
    IF p.nocopy \/ dataLen = 1 THEN 2 + lenBytes
    ELSE IF dataLen = 0 THEN Len(p.mem) + 1
    ELSE 1 + lenBytes + dataLen

\* CRYPT_AsnDecodeBits(pbEncoded, cbEncoded, dwFlags, pDecodePara,
\* pvStructInfo, pcbStructInfo): the set of its possible outcomes
CRYPT_AsnDecodeBits(p) ==
    IF p.nullIn THEN { DecNoInput(p) }
    ELSE LET g == CRYPT_GetLen(p.mem, p.cbEncoded)
         IN  IF ~g.ret THEN { DecFail(g.err, p, g.rd) }
             ELSE IF At(p.mem, 0) # ASN_BITSTRING
             THEN { DecFail(CRYPT_E_ASN1_BADTAG, p, g.rd) }
             ELSE LET dataLen == WVal(g.len)
                      lenBytes == GET_LEN_BYTES(At(p.mem, 1))
                      \* dataLen - 1 + sizeof(CRYPT_BIT_BLOB), a DWORD
                      bytesNeeded == IF p.nocopy THEN SIZEOF_CRYPT_BIT_BLOB
                                     ELSE dataLen + (SIZEOF_CRYPT_BIT_BLOB - 1)
                  IN  IF ~p.hasBuf THEN { DecSized(bytesNeeded, p, g.rd) }
                      ELSE { DecWritten(
                               CRYPT_DecodeEnsureSpace(p.alloc, p.allocOk, p.cb,
                                                       bytesNeeded),
                               p, BitsStored(p, dataLen, lenBytes, mask), g.rd,
                               BitsRead(p, dataLen, lenBytes))
                             : mask \in BitsMasks(MemAt(p.mem, 1 + lenBytes)) }

\* the copying loop of the big-integer decoders, lines 2111-2115 and
\* 2163-2167: pbData[i] = *(pbEncoded + last - i) for i < cbData
ReversedCopy(mem, last, cbData) ==
    [k \in 1..cbData |-> IF last - (k - 1) >= 0 /\ last - (k - 1) < Len(mem)
                         THEN mem[last - (k - 1) + 1] ELSE 0]

\* CRYPT_AsnDecodeInteger(pbEncoded, cbEncoded, dwFlags, pDecodePara,
\* pvStructInfo, pcbStructInfo)
CRYPT_AsnDecodeInteger(p) ==
    IF p.nullIn THEN DecNoInput(p)
    ELSE LET g == CRYPT_GetLen(p.mem, p.cbEncoded)
         IN  IF ~g.ret THEN DecFail(g.err, p, g.rd)
             ELSE IF At(p.mem, 0) # ASN_INTEGER
             THEN DecFail(CRYPT_E_ASN1_BADTAG, p, g.rd)
             ELSE LET dataLen == WVal(g.len)
                      lenBytes == GET_LEN_BYTES(At(p.mem, 1))
                      bytesNeeded == dataLen + SIZEOF_CRYPT_DATA_BLOB
                  IN  IF ~p.hasBuf THEN DecSized(bytesNeeded, p, g.rd)
                      ELSE DecWritten(
                             CRYPT_DecodeEnsureSpace(p.alloc, p.allocOk, p.cb,
                                                     bytesNeeded),
                             p,
                             [cbData |-> dataLen,
                              pbData |-> [buf |-> "output",
                                          off |-> SIZEOF_CRYPT_DATA_BLOB],
                              data |-> ReversedCopy(p.mem, lenBytes + dataLen,
                                                    dataLen)],
                             g.rd,
                             IF dataLen = 0 THEN g.rd ELSE 1 + lenBytes + dataLen)

\* CRYPT_AsnDecodeUnsignedInteger, lines 2156-2167: cbData and pbData after
\* the leading zero byte is removed, and the bytes the loop copies; the
\* loop indexes with pbEncoded[1], the first length octet, not with dataLen
UnsignedIntegerStored(p, dataLen, lenBytes) ==
    LET drop == IF dataLen # 0 /\ MemAt(p.mem, 1 + lenBytes) = 0 THEN 1 ELSE 0
    IN  [cbData |-> dataLen - drop,
         pbData |-> [buf |-> "output", off |-> SIZEOF_CRYPT_DATA_BLOB + drop],
         data |-> ReversedCopy(p.mem, lenBytes + MemAt(p.mem, 1), dataLen - drop)]

\* what CRYPT_AsnDecodeUnsignedInteger has read of the input when it
\* returns TRUE
UnsignedIntegerRead(p, dataLen, lenBytes, rd) ==
    IF dataLen = 0 THEN rd
    ELSE IF dataLen = 1 /\ MemAt(p.mem, 1 + lenBytes) = 0 THEN 2 + lenBytes
    ELSE 1 + lenBytes + MemAt(p.mem, 1)

\* CRYPT_AsnDecodeUnsignedInteger(pbEncoded, cbEncoded, dwFlags,
\* pDecodePara, pvStructInfo, pcbStructInfo)
CRYPT_AsnDecodeUnsignedInteger(p) ==
    IF p.nullIn THEN DecNoInput(p)
    ELSE LET g == CRYPT_GetLen(p.mem, p.cbEncoded)
         IN  IF ~g.ret THEN DecFail(g.err, p, g.rd)
             ELSE IF At(p.mem, 0) # ASN_INTEGER
             THEN DecFail(CRYPT_E_ASN1_BADTAG, p, g.rd)
             ELSE LET dataLen == WVal(g.len)
                      lenBytes == GET_LEN_BYTES(At(p.mem, 1))
                      bytesNeeded == dataLen + SIZEOF_CRYPT_DATA_BLOB
                  IN  IF ~p.hasBuf THEN DecSized(bytesNeeded, p, g.rd)
                      ELSE DecWritten(
                             CRYPT_DecodeEnsureSpace(p.alloc, p.allocOk, p.cb,
                                                     bytesNeeded),
                             p, UnsignedIntegerStored(p, dataLen, lenBytes), g.rd,
                             UnsignedIntegerRead(p, dataLen, lenBytes, g.rd))

\* the loop of CRYPT_AsnDecodeEnumerated, lines 2213-2217: val <<= 8;
\* val |= pbEncoded[2 + i], for i < n, from val = 0
RECURSIVE EnumeratedLoop(_, _, _, _)
EnumeratedLoop(mem, val, i, n) ==
    IF i >= n THEN val
    ELSE EnumeratedLoop(mem, WShl8Or(val, MemAt(mem, 2 + i)), i + 1, n)

\* CRYPT_AsnDecodeEnumerated(pbEncoded, cbEncoded, dwFlags, pDecodePara,
\* pvStructInfo, pcbStructInfo).  val is the decoded value as a Word.
CRYPT_AsnDecodeEnumerated(p) ==
    IF p.nullIn \/ p.cbEncoded = 0 THEN DecNoInput(p)
    ELSE IF ~p.hasBuf THEN DecSized(SIZEOF_INT, p, 0)
    ELSE IF At(p.mem, 0) # ASN_ENUMERATED THEN DecFail(CRYPT_E_ASN1_BADTAG, p, 1)
    ELSE IF p.cbEncoded <= 1 THEN DecFail(CRYPT_E_ASN1_EOD, p, 1)
    ELSE IF At(p.mem, 1) = 0 THEN DecFail(CRYPT_E_ASN1_CORRUPT, p, 2)
    ELSE IF At(p.mem, 1) > SIZEOF_INT + 1 THEN DecFail(CRYPT_E_ASN1_LARGE, p, 2)
    ELSE DecWritten(
           CRYPT_DecodeEnsureSpace(p.alloc, p.allocOk, p.cb, SIZEOF_INT),
           p, EnumeratedLoop(p.mem, ZeroWord, 0, At(p.mem, 1)),
           2 + At(p.mem, 1), 2 + At(p.mem, 1))

-----------------------------------------------------------------------------
(* SpecBlob: one call of a bit-string, big-integer or enumerated codec,    *)
(* and, after an ENUMERATED was written, the decoding of what was written. *)

MaxBlob == 3

BlobTail == 3

\* the byte next to a blob in memory
BlobAdj == { 0, 255 }

IntegerBlobs ==
    { [pbData |-> b, cUnusedBits |-> 0] : b \in SeqsUpTo(BlobBytes, MaxBlob) }

BitCounts == { 0, 1, 6, 7, 8, 9, 15, 16 }

BitBlobs ==
    { [pbData |-> b, cUnusedBits |-> u] : b \in SeqsUpTo(BlobBytes, MaxContent),
                                          u \in BitCounts }

\* the DWORDs drawn, least significant byte first
EnumValues ==
    { [pbData |-> b, cUnusedBits |-> 0] : b \in [1..SIZEOF_DWORD -> { 0, 1, 128, 255 }] }

BlobEncCodecs == { "EncodeInteger", "EncodeUnsignedInteger" }

BlobDecCodecs ==
    { "DecodeOctets", "DecodeBits", "DecodeInteger", "DecodeUnsignedInteger",
      "DecodeEnumerated" }

BlobTags == { ASN_INTEGER, ASN_BITSTRING, ASN_OCTETSTRING, ASN_ENUMERATED }

BlobLenOctets == { 0, 1, 2, 3, 5, 129 }

BlobMems ==
    { << t, n >> \o tail : t \in BlobTags, n \in BlobLenOctets,
                           tail \in [1..BlobTail -> { 0, 7, 255 }] }

\* decoder calls: a sizing call, a writing call with room and an allocating
\* call, each with and without CRYPT_DECODE_NOCOPY_FLAG
BlobDecParams ==
    { [nullIn |-> FALSE, mem |-> m, cbEncoded |-> n, nocopy |-> nc,
       hasBuf |-> e.hasBuf, alloc |-> e.alloc, allocOk |-> e.allocOk, cb |-> e.cb]
      : m \in BlobMems, n \in { 2, 2 + BlobTail }, nc \in BOOLEAN,
        e \in { x \in EncParams : x.cb \in { 0, CapStep * MaxCapSteps } /\ x.allocOk } }

InitBlob ==
    /\ pc = "ready"
    /\ call \in
            { [codec |-> c, info |-> Ptr(b), adj |-> a, p |-> e]
              : c \in BlobEncCodecs, b \in IntegerBlobs, a \in BlobAdj, e \in EncParams }
            \cup { [codec |-> "EncodeBits", info |-> Ptr(b), adj |-> a, p |-> e]
                   : b \in BitBlobs, a \in BlobAdj, e \in EncParams }
            \cup { [codec |-> "EncodeEnumerated", info |-> Ptr(b), adj |-> a, p |-> e]
                   : b \in EnumValues, a \in BlobAdj, e \in EncParams }
            \cup { [codec |-> c, info |-> Null, adj |-> 0, p |-> d]
                   : c \in BlobDecCodecs, d \in BlobDecParams }
    /\ res = NoRes
    /\ prev = NoRes
    /\ loc = NoLoc

EncodeBits ==
    /\ pc = "ready"
    /\ call.codec = "EncodeBits"
    /\ Return(CRYPT_AsnEncodeBits(call.info, call.adj, call.p))

EncodeInteger ==
    /\ pc = "ready"
    /\ call.codec = "EncodeInteger"
    /\ Return(CRYPT_AsnEncodeInteger(call.info, call.adj, call.p))

EncodeUnsignedInteger ==
    /\ pc = "ready"
    /\ call.codec = "EncodeUnsignedInteger"
    /\ Return(CRYPT_AsnEncodeUnsignedInteger(call.info, call.adj, call.p))

EncodeEnumerated ==
    /\ pc = "ready"
    /\ call.codec = "EncodeEnumerated"
    /\ Return(CRYPT_AsnEncodeEnumerated(call.info, call.adj, call.p))

DecodeBits ==
    /\ pc = "ready"
    /\ call.codec = "DecodeBits"
    /\ \E o \in CRYPT_AsnDecodeBits(call.p) : Return(o)

DecodeInteger ==
    /\ pc = "ready"
    /\ call.codec = "DecodeInteger"
    /\ Return(CRYPT_AsnDecodeInteger(call.p))

DecodeUnsignedInteger ==
    /\ pc = "ready"
    /\ call.codec = "DecodeUnsignedInteger"
    /\ Return(CRYPT_AsnDecodeUnsignedInteger(call.p))

DecodeEnumerated ==
    /\ pc = "ready"
    /\ call.codec = "DecodeEnumerated"
    /\ Return(CRYPT_AsnDecodeEnumerated(call.p))

\* the caller hands the ENUMERATED just written to the decoder, with room
\* for the value
DecodeEnumeratedBack ==
    /\ pc = "returned"
    /\ call.codec = "EncodeEnumerated"
    /\ call.p.hasBuf
    /\ res.ret
    /\ pc' = "decoded"
    /\ prev' = res
    /\ res' = CRYPT_AsnDecodeEnumerated(
                 [nullIn |-> FALSE, mem |-> res.out, cbEncoded |-> Len(res.out),
                  nocopy |-> FALSE, hasBuf |-> TRUE, alloc |-> FALSE,
                  allocOk |-> TRUE, cb |-> SIZEOF_INT])
    /\ UNCHANGED << call, loc >>

NextBlob ==
    \/ EncodeBits
    \/ EncodeInteger
    \/ EncodeUnsignedInteger
    \/ EncodeEnumerated
    \/ DecodeOctets
    \/ DecodeBits
    \/ DecodeInteger
    \/ DecodeUnsignedInteger
    \/ DecodeEnumerated
    \/ DecodeEnumeratedBack

SpecBlob == InitBlob /\ [][NextBlob]_vars

-----------------------------------------------------------------------------
(* The blobs the decoders hand out under CRYPT_DECODE_NOCOPY_FLAG (C11).   *)

\* the decoders that produce a blob
BlobProducers ==
    { "DecodeOctets", "DecodeBits", "DecodeInteger", "DecodeUnsignedInteger" }

\* a decoder of a blob has returned TRUE from a writing call made with
\* CRYPT_DECODE_NOCOPY_FLAG
NoCopyDecoded ==
    /\ pc = "returned"
    /\ call.codec \in BlobProducers
    /\ call.p.nocopy
    /\ call.p.hasBuf
    /\ res.ret

\* the decoded blob holds no byte: its cbData is 0 (a Word for a bit blob)
BlobIsEmpty(v) ==
    IF call.codec = "DecodeBits" THEN v.cbData = ZeroWord ELSE v.cbData = 0

\* C11: with CRYPT_DECODE_NOCOPY_FLAG, the byte pointer of every blob a
\* built-in decoder produces points inside the caller's input buffer
\* [pbEncoded, pbEncoded + cbEncoded); a blob without bytes is let off.
C11_NoCopyPointsIntoInput ==
    NoCopyDecoded =>
        \/ BlobIsEmpty(Deref(res.val))
        \/ /\ Deref(res.val).pbData.buf = "input"
           /\ Deref(res.val).pbData.off >= 0
           /\ Deref(res.val).pbData.off < call.p.cbEncoded

-----------------------------------------------------------------------------
(* ENUMERATED round trip (C17).                                            *)

\* the DWORD whose bytes, least significant first, are b, as a Word
WordOfBytes(b) == << b[4], b[3], b[2], b[1] >>

\* C17: for every 32-bit value v, 0 included, decoding the ENUMERATED the
\* encoder wrote for v gives v back, and the encoder reads no byte outside
\* the four bytes of v.
C17_EnumeratedRoundTrip ==
    /\ (pc = "returned" /\ call.codec = "EncodeEnumerated") => ~res.rdOut
    /\ (pc = "decoded" /\ call.codec = "EncodeEnumerated") =>
          /\ res.ret
          /\ Deref(res.val) = WordOfBytes(Deref(call.info).pbData)

-----------------------------------------------------------------------------
(* The signed big-integer encoder (C18).                                   *)

\* the big-endian two's complement octets c with every redundant leading
\* sign octet removed
RECURSIVE Minimal(_)
Minimal(c) ==
    IF Len(c) > 1 /\ ((c[1] = 0 /\ c[2] < 128) \/ (c[1] = 255 /\ c[2] >= 128))
    THEN Minimal(Tail(c))
    ELSE c

\* the bytes of s in reverse order
Reversed(s) == [k \in 1..Len(s) |-> s[Len(s) + 1 - k]]

\* C18: for every non-empty little-endian integer blob, all-0x00 and
\* all-0xFF ones included, the signed big-integer encoder writes the tag,
\* the length and at least one content octet, the content being the minimal
\* big-endian two's complement form of the value, and reads no byte outside
\* the blob.
C18_IntegerMinimalContent ==
    (/\ pc = "returned"
     /\ call.codec = "EncodeInteger"
     /\ Deref(call.info).pbData # << >>) =>
        /\ ~res.rdOut
        /\ (call.p.hasBuf /\ res.ret) =>
              LET content == Minimal(Reversed(Deref(call.info).pbData))
              IN  /\ Len(content) >= 1
                  /\ res.out = << ASN_INTEGER, Len(content) >> \o content

-----------------------------------------------------------------------------
(* The bit-string encoder (C19).                                           *)

\* byte b with its low n bits (0 <= n <= 7) cleared
ClearLow(b, n) == b - (b % (2 ^ n))

\* the first m bytes of data, the low n bits of the last one cleared
BitsExpected(data, m, n) ==
    [k \in 1..m |-> IF k = m THEN ClearLow(data[k], n) ELSE data[k]]

\* C19: for a bit blob of n bytes with u < 8n unused bits the bit-string
\* encoder writes the unused-bits octet u mod 8 and then exactly
\* ceil((8n - u) / 8) content bytes, the unused low bits of the last one
\* cleared, and reads no byte of the blob at an index >= n.
C19_BitsContent ==
    (/\ pc = "returned"
     /\ call.codec = "EncodeBits"
     /\ Deref(call.info).cUnusedBits < 8 * Len(Deref(call.info).pbData)) =>
        /\ ~res.rdOut
        /\ (call.p.hasBuf /\ res.ret) =>
              LET blob == Deref(call.info)
                  m == (8 * Len(blob.pbData) - blob.cUnusedBits + 7) \div 8
              IN  res.out = << ASN_BITSTRING, m + 1, blob.cUnusedBits % 8 >>
                            \o BitsExpected(blob.pbData, m, blob.cUnusedBits % 8)

-----------------------------------------------------------------------------
(* The bit-string decoder (C20).                                           *)

\* the input of the call is a well-formed BIT STRING: the tag, a short-form
\* length the buffer covers, and an unused-bits octet of 0..7 when there is
\* content
WellFormedBits ==
    /\ At(call.p.mem, 0) = ASN_BITSTRING
    /\ At(call.p.mem, 1) < 128
    /\ 2 + At(call.p.mem, 1) <= call.p.cbEncoded
    /\ call.p.cbEncoded <= Len(call.p.mem)
    /\ At(call.p.mem, 1) >= 1 => At(call.p.mem, 2) <= 7

\* the Word w is at most n
WLeqNat(w, n) == w[1] = 0 /\ w[2] = 0 /\ w[3] * 256 + w[4] <= n

\* the last content byte of the decoded bit blob v of cbData = n >= 1 bytes:
\* a byte of the input under NoCopy, of the output otherwise
BitsLastByte(v, n) ==
    IF v.pbData.buf = "input" THEN MemAt(call.p.mem, v.pbData.off + n - 1)
    ELSE v.data[n]

\* C20: for every well-formed BIT STRING and every combination of flags
\* the decoder sets cUnusedBits to the unused-bits octet of the wire, the
\* last content byte of the decoded blob has its unused low bits zero, and
\* the blob is never longer than the input (content length 0 included).
C20_BitsDecoded ==
    (/\ pc = "returned"
     /\ call.codec = "DecodeBits"
     /\ WellFormedBits
     /\ call.p.hasBuf
     /\ res.ret) =>
        LET v == Deref(res.val)
        IN  /\ WLeqNat(v.cbData, call.p.cbEncoded)
            /\ At(call.p.mem, 1) >= 1 => v.cUnusedBits = At(call.p.mem, 2)
            /\ At(call.p.mem, 1) >= 2 =>
                  BitsLastByte(v, At(call.p.mem, 1) - 1) % (2 ^ At(call.p.mem, 2)) = 0

-----------------------------------------------------------------------------
(* The registry of OID functions and the four dispatching entry points.    *)
(* A structure id (lpszStructType, pszOID) is the record of its numeric    *)
(* value num (the pointer's low word when its high word is 0) and its      *)
(* string oid ("" when the id is numeric); the null pointer is the numeric *)
(* id 0.  A string pointer is Null or Ptr(string).  The registry maps the  *)
(* key names that exist to the values "Dll" and "FuncName" stored under    *)
(* them; a value is its type and data, or NoValue.                         *)

X509_ASN_ENCODING == 1

PKCS_7_ASN_ENCODING == 65536

\* 0x0000FFFF; x & CERT_ENCODING_TYPE_MASK is x % (CERT_ENCODING_TYPE_MASK + 1)
CERT_ENCODING_TYPE_MASK == 65535

X509_CERT == 1

X509_NAME == 7

X509_KEY_USAGE == 14

PKCS_UTC_TIME == 17

X509_OCTET_STRING == 25

X509_BITS == 26

X509_INTEGER == 27

X509_MULTI_BYTE_INTEGER == 28

X509_ENUMERATED == 29

X509_CHOICE_OF_TIME == 30

X509_MULTI_BYTE_UINT == 38

szOID_RSA_signingTime == "1.2.840.113549.1.9.5"

szOID_CRL_REASON_CODE == "2.5.29.21"

szOID_KEY_USAGE == "2.5.29.15"

szOID_SUBJECT_KEY_IDENTIFIER == "2.5.29.14"

ERROR_FILE_NOT_FOUND == "ERROR_FILE_NOT_FOUND"

REG_SZ == "REG_SZ"

REG_DWORD == "REG_DWORD"

\* the numeric structure id n, and the structure id that is the string s
NumId(n) == [num |-> n, oid |-> ""]

StrId(s) == [num |-> 0, oid |-> s]

\* HIWORD(lpszStructType)
HIWORD(id) == IF id.oid = "" THEN 0 ELSE 1

\* GET_CERT_ENCODING_TYPE(dwEncodingType)
GET_CERT_ENCODING_TYPE(enc) == enc % (CERT_ENCODING_TYPE_MASK + 1)

\* dwEncodingType & CMSG_ENCODING_TYPE_MASK
GET_CMSG_ENCODING_TYPE(enc) == enc - (enc % (CERT_ENCODING_TYPE_MASK + 1))

\* CRYPT_GetKeyName(dwEncodingType, pszFuncName, pszOID): the key
\* "...\\EncodingType <enc>\\<func>\\<oid>", a numeric id printing as "#<num>"
CRYPT_GetKeyName(enc, func, id) == << enc, func, id >>

NoValue == [type |-> "none", data |-> ""]

\* the outcome of a registry operation: what it returns, the last error it
\* sets ("" when it sets none), the registry it leaves and the value it
\* hands out
RegOutcome(ret, err, reg, val) == [ret |-> ret, err |-> err, reg |-> reg, val |-> val]

\* the registry reg with the key k created if it was missing
RegCreateKey(reg, k) ==
    IF k \in DOMAIN reg THEN reg
    ELSE (k :> [Dll |-> NoValue, FuncName |-> NoValue]) @@ reg

\* the registry reg without the key k
RegDeleteKey(reg, k) == [x \in DOMAIN reg \ { k } |-> reg[x]]

\* a variant of the registration that, as the comment at lines 112-118 says
\* of the native library, accepts a null pszFuncName or pszOID and creates
\* an entry of no use
RegisterNullAccepted(reg, enc, func, id, dll, override) ==
    IF GET_CERT_ENCODING_TYPE(enc) = 0 THEN RegOutcome(TRUE, "", reg, NoValue)
    ELSE IF dll = Null THEN RegOutcome(TRUE, "", reg, NoValue)
    ELSE LET k == CRYPT_GetKeyName(enc, IF func = Null THEN "" ELSE Deref(func), id)
             made == RegCreateKey(reg, k)
         IN  RegOutcome(TRUE, "",
               [made EXCEPT ![k] =
                  [Dll |-> [type |-> REG_SZ, data |-> Deref(dll)],
                   FuncName |-> IF override = Null THEN made[k].FuncName
                                ELSE [type |-> REG_SZ, data |-> Deref(override)]]],
               NoValue)

\* CryptRegisterOIDFunction(dwEncodingType, pszFuncName, pszOID, pwszDll,
\* pszOverrideFuncName)
CryptRegisterOIDFunction(reg, enc, func, id, dll, override) ==
    IF GET_CERT_ENCODING_TYPE(enc) = 0 THEN RegOutcome(TRUE, "", reg, NoValue)
    ELSE IF dll = Null THEN RegOutcome(TRUE, "", reg, NoValue)
    ELSE IF func = Null \/ id = NumId(0)
    THEN RegOutcome(FALSE, ERROR_INVALID_PARAMETER, reg, NoValue)
    ELSE LET k == CRYPT_GetKeyName(enc, Deref(func), id)
             made == RegCreateKey(reg, k)
         IN  RegOutcome(TRUE, "",
               [made EXCEPT ![k] =
                  [Dll |-> [type |-> REG_SZ, data |-> Deref(dll)],
                   FuncName |-> IF override = Null THEN made[k].FuncName
                                ELSE [type |-> REG_SZ, data |-> Deref(override)]]],
               NoValue)

\* CryptUnregisterOIDFunction(dwEncodingType, pszFuncName, pszOID)
CryptUnregisterOIDFunction(reg, enc, func, id) ==
    IF GET_CERT_ENCODING_TYPE(enc) = 0 THEN RegOutcome(TRUE, "", reg, NoValue)
    ELSE IF func = Null \/ id = NumId(0)
    THEN RegOutcome(FALSE, ERROR_INVALID_PARAMETER, reg, NoValue)
    ELSE IF CRYPT_GetKeyName(enc, Deref(func), id) \in DOMAIN reg
    THEN RegOutcome(TRUE, "",
                    RegDeleteKey(reg, CRYPT_GetKeyName(enc, Deref(func), id)), NoValue)
    ELSE RegOutcome(FALSE, ERROR_FILE_NOT_FOUND, reg, NoValue)

\* CryptGetOIDFunctionValue(dwEncodingType, pszFuncName, pszOID,
\* pwszValueName, pdwValueType, pbValueData, pcbValueData), the caller's
\* buffer being large enough
CryptGetOIDFunctionValue(reg, enc, func, id, valueName) ==
    IF GET_CERT_ENCODING_TYPE(enc) = 0 THEN RegOutcome(TRUE, "", reg, NoValue)
    ELSE IF func = Null \/ id = NumId(0) \/ valueName = Null
    THEN RegOutcome(FALSE, ERROR_INVALID_PARAMETER, reg, NoValue)
    ELSE IF CRYPT_GetKeyName(enc, Deref(func), id) \notin DOMAIN reg
    THEN RegOutcome(FALSE, ERROR_FILE_NOT_FOUND, reg, NoValue)
    ELSE IF reg[CRYPT_GetKeyName(enc, Deref(func), id)][Deref(valueName)] = NoValue
    THEN RegOutcome(FALSE, ERROR_FILE_NOT_FOUND, reg, NoValue)
    ELSE RegOutcome(TRUE, "", reg,
                    reg[CRYPT_GetKeyName(enc, Deref(func), id)][Deref(valueName)])

\* CryptSetOIDFunctionValue(dwEncodingType, pszFuncName, pszOID,
\* pwszValueName, dwValueType, pbValueData, cbValueData)
CryptSetOIDFunctionValue(reg, enc, func, id, valueName, value) ==
    IF GET_CERT_ENCODING_TYPE(enc) = 0 THEN RegOutcome(TRUE, "", reg, NoValue)
    ELSE IF func = Null \/ id = NumId(0) \/ valueName = Null
    THEN RegOutcome(FALSE, ERROR_INVALID_PARAMETER, reg, NoValue)
    ELSE IF CRYPT_GetKeyName(enc, Deref(func), id) \notin DOMAIN reg
    THEN RegOutcome(FALSE, ERROR_FILE_NOT_FOUND, reg, NoValue)
    ELSE RegOutcome(TRUE, "",
           [reg EXCEPT ![CRYPT_GetKeyName(enc, Deref(func), id)][Deref(valueName)] = value],
           NoValue)

\* The modules LoadLibraryW can load and the symbols GetProcAddress finds in
\* them: plugin.dll exports the four generic entry points and "Override",
\* bare.dll exports nothing, any other name is no module.
DispatchNames ==
    { "CryptEncodeObject", "CryptEncodeObjectEx", "CryptDecodeObject",
      "CryptDecodeObjectEx" }

Loadable == { "plugin.dll", "bare.dll" }

Exports(dll) == IF dll = "plugin.dll" THEN DispatchNames \cup { "Override" } ELSE { }

\* the value a local DWORD holds before anything was stored in it
UninitTypes == { REG_SZ, REG_DWORD }

\* the name read from a buffer nothing was stored in
Garbage == "?"

\* GetProcAddress(lib, funcName): whether a symbol is found; what the garbage
\* name finds is open
Resolves(dll, funcName) ==
    IF funcName = Garbage THEN BOOLEAN ELSE { funcName \in Exports(dll) }

\* an outcome of CRYPT_GetFunc: the function it returns (Null, or the
\* module and symbol), *lib, and how many times it called LoadLibraryW with
\* success and FreeLibrary
GetFuncOutcome(func, lib, loads, frees) ==
    [func |-> func, lib |-> lib, loads |-> loads, frees |-> frees]

\* a variant of the lookup that keeps the module loaded when the symbol is
\* not found in it and still reports no module
GetFuncLoadKept(entry, type, funcName, lastError) ==
    IF lastError # ERROR_MORE_DATA \/ type # REG_SZ
    THEN { GetFuncOutcome(Null, Null, 0, 0) }
    ELSE IF entry.Dll.data \notin Loadable
    THEN { GetFuncOutcome(Null, Null, 0, 0) }
    ELSE { IF found
           THEN GetFuncOutcome(Ptr([dll |-> entry.Dll.data, sym |-> funcName]),
                               Ptr(entry.Dll.data), 1, 0)
           ELSE GetFuncOutcome(Null, Null, 1, 0)
           : found \in Resolves(entry.Dll.data, funcName) }

\* CRYPT_GetFunc, lines 280-301: the module is looked up when the last error
\* is ERROR_MORE_DATA and type, as the sizing query of "Dll" left it, is
\* REG_SZ
GetFuncLoad(entry, type, funcName, lastError) ==
    IF lastError # ERROR_MORE_DATA \/ type # REG_SZ
    THEN { GetFuncOutcome(Null, Null, 0, 0) }
    ELSE IF entry.Dll.data \notin Loadable
    THEN { GetFuncOutcome(Null, Null, 0, 0) }
    ELSE { IF found
           THEN GetFuncOutcome(Ptr([dll |-> entry.Dll.data, sym |-> funcName]),
                               Ptr(entry.Dll.data), 1, 0)
           ELSE GetFuncOutcome(Null, Null, 1, 1)
           : found \in Resolves(entry.Dll.data, funcName) }

\* CRYPT_GetFunc, lines 271-279: funcName is read from the registry when the
\* last error is ERROR_MORE_DATA and type, as the sizing query of "FuncName"
\* left it (type0 when there is no such value), is REG_SZ
GetFuncName(entry, type0, szFuncName, lastError) ==
    IF lastError = ERROR_MORE_DATA
       /\ (IF entry.FuncName = NoValue THEN type0 ELSE entry.FuncName.type) = REG_SZ
    THEN (IF entry.FuncName = NoValue THEN Garbage ELSE entry.FuncName.data)
    ELSE szFuncName

\* CRYPT_GetFunc(dwCertEncodingType, lpszStructType, szFuncName, lib): the
\* set of its possible outcomes.  The registry queries return their status
\* and leave the last error as it is.
CRYPT_GetFunc(reg, enc, id, szFuncName, lastError) ==
    IF CRYPT_GetKeyName(enc, szFuncName, id) \notin DOMAIN reg
    THEN { GetFuncOutcome(Null, Null, 0, 0) }
    ELSE UNION { GetFuncLoad(
                   reg[CRYPT_GetKeyName(enc, szFuncName, id)],
                   IF reg[CRYPT_GetKeyName(enc, szFuncName, id)].Dll = NoValue
                   THEN (IF reg[CRYPT_GetKeyName(enc, szFuncName, id)].FuncName = NoValue
                         THEN type0
                         ELSE reg[CRYPT_GetKeyName(enc, szFuncName, id)].FuncName.type)
                   ELSE reg[CRYPT_GetKeyName(enc, szFuncName, id)].Dll.type,
                   GetFuncName(reg[CRYPT_GetKeyName(enc, szFuncName, id)], type0,
                               szFuncName, lastError),
                   lastError)
                 : type0 \in UninitTypes }

\* the built-in encoder CryptEncodeObjectEx picks for a structure id, ""
\* when it has none (lines 1238-1284); the decoders of CryptDecodeObjectEx
\* are picked the same way (lines 2513-2559)
BuiltIn(id) ==
    IF HIWORD(id) = 0
    THEN CASE id.num = X509_NAME -> "Name"
           [] id.num = X509_OCTET_STRING -> "Octets"
           [] id.num = X509_BITS \/ id.num = X509_KEY_USAGE -> "Bits"
           [] id.num = X509_INTEGER -> "Int"
           [] id.num = X509_MULTI_BYTE_INTEGER -> "Integer"
           [] id.num = X509_MULTI_BYTE_UINT -> "UnsignedInteger"
           [] id.num = X509_ENUMERATED -> "Enumerated"
           [] id.num = X509_CHOICE_OF_TIME -> "ChoiceOfTime"
           [] id.num = PKCS_UTC_TIME -> "UtcTime"
           [] OTHER -> ""
    ELSE CASE id.oid = szOID_RSA_signingTime -> "UtcTime"
           [] id.oid = szOID_CRL_REASON_CODE -> "Enumerated"
           [] id.oid = szOID_KEY_USAGE -> "Bits"
           [] id.oid = szOID_SUBJECT_KEY_IDENTIFIER -> "Octets"
           [] OTHER -> ""

\* The arguments of a dispatching call are the record a of enc
\* (dwCertEncodingType), id (lpszStructType), out ("none": the output pointer
\* and the size cell are both null, "size": only the output pointer is,
\* "write": neither is), cb (the size cell), alloc and nocopy (dwFlags) and,
\* for an encoder, info and adj, for a decoder, mem and cbEncoded.

\* what the codecs get of the arguments a
CodecParams(a) ==
    [nullIn |-> FALSE, mem |-> a.mem, cbEncoded |-> a.cbEncoded, nocopy |-> a.nocopy,
     hasBuf |-> a.out = "write", alloc |-> a.alloc, allocOk |-> TRUE, cb |-> a.cb]

\* encodeFunc(dwCertEncodingType, lpszStructType, pvStructInfo, dwFlags,
\* pEncodePara, pvEncoded, pcbEncoded) for the built-in encoders of the
\* structure ids drawn
RunEncoder(name, a) ==
    CASE name = "Octets" -> { CRYPT_AsnEncodeOctets(a.info, CodecParams(a)) }
      [] name = "Bits" -> { CRYPT_AsnEncodeBits(a.info, a.adj, CodecParams(a)) }

\* decodeFunc(dwCertEncodingType, lpszStructType, pbEncoded, cbEncoded,
\* dwFlags, pDecodePara, pvStructInfo, pcbStructInfo) likewise
RunDecoder(name, a) ==
    CASE name = "Octets" -> { CRYPT_AsnDecodeOctets(CodecParams(a)) }
      [] name = "Bits" -> CRYPT_AsnDecodeBits(CodecParams(a))

\* what a function resolved in a module may do: succeed, or fail and set
\* the last error
PluginOutcomes ==
    { [ret |-> TRUE, sets |-> FALSE, err |-> NOERROR],
      [ret |-> FALSE, sets |-> TRUE, err |-> ERROR_MORE_DATA],
      [ret |-> FALSE, sets |-> TRUE, err |-> CRYPT_E_BAD_ENCODE] }

\* an outcome of a dispatching call: what it returns, the last error when
\* it returns, who handled the call (by: "" nobody, "plugin", or the
\* built-in codec; sym: the resolved function; args: what it was called
\* with), the function names looked up in the registry, in order, the
\* number of successful LoadLibraryW and of FreeLibrary calls, and the
\* outcome r of the built-in codec
Dispatched(ret, err, by, sym, args, looked, loads, frees, r) ==
    [ret |-> ret, err |-> err, by |-> by, sym |-> sym, args |-> args,
     looked |-> looked, loads |-> loads, frees |-> frees, r |-> r]

NotDispatched(err, looked, loads, frees) ==
    Dispatched(FALSE, err, "", Null, Null, looked, loads, frees, NoRes)

\* the call of the function g that CRYPT_GetFunc resolved, and the
\* FreeLibrary(lib) after it
PluginCall(g, a, szFuncName, lastError) ==
    { Dispatched(po.ret, IF po.sets THEN po.err ELSE lastError, "plugin", g.func,
                 Ptr(a), << szFuncName >>, g.loads, g.frees + 1, NoRes)
      : po \in PluginOutcomes }

\* CryptEncodeObjectEx from line 1285 on (CryptDecodeObjectEx from line
\* 2560 on) when no built-in codec was picked: g is what CRYPT_GetFunc gave
ExLookedUp(g, a, szFuncName) ==
    IF g.func # Null THEN PluginCall(g, a, szFuncName, NOERROR)
    ELSE { NotDispatched(ERROR_FILE_NOT_FOUND, << szFuncName >>, g.loads,
                         g.frees + (IF g.lib # Null THEN 1 ELSE 0)) }

\* a variant of the Ex entry points without the test of the encoding type
ExDispatchAnyFamily(reg, a, szFuncName, run) ==
    IF a.out = "none" THEN { NotDispatched(ERROR_INVALID_PARAMETER, << >>, 0, 0) }
    ELSE IF BuiltIn(a.id) # ""
    THEN { Dispatched(r.ret, IF r.ret THEN NOERROR ELSE r.err, BuiltIn(a.id), Null,
                      Ptr(a), << >>, 0, 0, r) : r \in run }
    ELSE UNION { ExLookedUp(g, a, szFuncName)
                 : g \in CRYPT_GetFunc(reg, a.enc, a.id, szFuncName, NOERROR) }

\* the body shared by CryptEncodeObjectEx and CryptDecodeObjectEx; run is
\* the set of outcomes of the built-in codec picked for a.id
ExDispatch(reg, a, szFuncName, run) ==
    IF a.out = "none" THEN { NotDispatched(ERROR_INVALID_PARAMETER, << >>, 0, 0) }
    ELSE IF GET_CERT_ENCODING_TYPE(a.enc) # X509_ASN_ENCODING
            /\ GET_CMSG_ENCODING_TYPE(a.enc) # PKCS_7_ASN_ENCODING
    THEN { NotDispatched(ERROR_FILE_NOT_FOUND, << >>, 0, 0) }
    ELSE IF BuiltIn(a.id) # ""
    THEN { Dispatched(r.ret, IF r.ret THEN NOERROR ELSE r.err, BuiltIn(a.id), Null,
                      Ptr(a), << >>, 0, 0, r) : r \in run }
    ELSE UNION { ExLookedUp(g, a, szFuncName)
                 : g \in CRYPT_GetFunc(reg, a.enc, a.id, szFuncName, NOERROR) }

\* CryptEncodeObjectEx(dwCertEncodingType, lpszStructType, pvStructInfo,
\* dwFlags, pEncodePara, pvEncoded, pcbEncoded): the set of its outcomes
CryptEncodeObjectEx(reg, a) ==
    ExDispatch(reg, a, "CryptEncodeObjectEx", RunEncoder(BuiltIn(a.id), a))

\* CryptDecodeObjectEx(dwCertEncodingType, lpszStructType, pbEncoded,
\* cbEncoded, dwFlags, pDecodePara, pvStructInfo, pcbStructInfo)
CryptDecodeObjectEx(reg, a) ==
    ExDispatch(reg, a, "CryptDecodeObjectEx", RunDecoder(BuiltIn(a.id), a))

\* the outcome e of the Ex entry point as the outcome of the entry point
\* that called it after CRYPT_GetFunc gave g and no function
ViaEx(g, e, szFuncName) ==
    [e EXCEPT !.looked = << szFuncName >> \o e.looked,
              !.loads = g.loads + e.loads,
              !.frees = g.frees + e.frees]

\* a variant of CryptEncodeObject and CryptDecodeObject that asks the Ex
\* entry point first and looks for a registered function only when that
\* one found nothing
FacadeExFirst(reg, lastError, a, szFuncName, ex) ==
    IF a.out = "none" THEN { NotDispatched(ERROR_INVALID_PARAMETER, << >>, 0, 0) }
    ELSE UNION { IF e.by # "" THEN { e }
                 ELSE UNION { IF g.func # Null
                              THEN PluginCall(g, a, szFuncName, lastError)
                              ELSE { NotDispatched(ERROR_FILE_NOT_FOUND,
                                                   e.looked \o << szFuncName >>,
                                                   e.loads + g.loads, e.frees + g.frees) }
                              : g \in CRYPT_GetFunc(reg, a.enc, a.id, szFuncName,
                                                    lastError) }
                 : e \in ex }

\* the body shared by CryptEncodeObject and CryptDecodeObject: the
\* registered function first, the Ex entry point (its outcomes are ex)
\* otherwise
Facade(reg, lastError, a, szFuncName, ex) ==
    IF a.out = "none" THEN { NotDispatched(ERROR_INVALID_PARAMETER, << >>, 0, 0) }
    ELSE UNION { IF g.func # Null THEN PluginCall(g, a, szFuncName, lastError)
                 ELSE { ViaEx(g, e, szFuncName) : e \in ex }
                 : g \in CRYPT_GetFunc(reg, a.enc, a.id, szFuncName, lastError) }

\* CryptEncodeObject(dwCertEncodingType, lpszStructType, pvStructInfo,
\* pbEncoded, pcbEncoded); it passes dwFlags = 0 on
CryptEncodeObject(reg, lastError, a) ==
    Facade(reg, lastError, a, "CryptEncodeObject",
           CryptEncodeObjectEx(reg, [a EXCEPT !.alloc = FALSE, !.nocopy = FALSE]))

\* CryptDecodeObject(dwCertEncodingType, lpszStructType, pbEncoded,
\* cbEncoded, dwFlags, pvStructInfo, pcbStructInfo)
CryptDecodeObject(reg, lastError, a) ==
    Facade(reg, lastError, a, "CryptDecodeObject", CryptDecodeObjectEx(reg, a))

-----------------------------------------------------------------------------
(* SpecDisp: a thread calls the registry operations and the dispatching    *)
(* entry points one after the other.  loc is what outlives a call: the     *)
(* registry, the thread's last error, the number of modules loaded and     *)
(* released so far and the number of calls made.                           *)

MaxCalls == 2

\* structure ids: one with a built-in codec and one without, of each kind
DispIds ==
    { NumId(X509_OCTET_STRING), NumId(X509_CERT), StrId(szOID_KEY_USAGE),
      StrId("1.2.3") }

\* encoding types: X.509, an unknown certificate family, PKCS #7 alone
DispEncs == { X509_ASN_ENCODING, 2, PKCS_7_ASN_ENCODING }

\* the registries drawn: empty, or one key as CryptRegisterOIDFunction and
\* CryptSetOIDFunctionValue leave it
DispValuesDll ==
    { [type |-> REG_SZ, data |-> "plugin.dll"], [type |-> REG_SZ, data |-> "bare.dll"],
      [type |-> REG_DWORD, data |-> "plugin.dll"] }

DispValuesFuncName == { NoValue, [type |-> REG_SZ, data |-> "Override"] }

DispRegistries ==
    { << >> }
    \cup { (CRYPT_GetKeyName(X509_ASN_ENCODING, f, id) :> [Dll |-> d, FuncName |-> n])
           : f \in DispatchNames, id \in { NumId(X509_OCTET_STRING), StrId("1.2.3") },
             d \in DispValuesDll, n \in DispValuesFuncName }

DispLastErrors == { NOERROR, ERROR_MORE_DATA }

\* the arguments of the dispatching calls drawn
DispArgs ==
    { [enc |-> e, id |-> id, out |-> o, cb |-> CapStep * MaxCapSteps,
       alloc |-> FALSE, nocopy |-> FALSE,
       info |-> IF BuiltIn(id) = "Bits"
                THEN Ptr([pbData |-> << 128 >>, cUnusedBits |-> 7])
                ELSE Ptr(<< 1, 2 >>),
       adj |-> 0,
       mem |-> IF BuiltIn(id) = "Bits" THEN << ASN_BITSTRING, 2, 7, 128 >>
               ELSE << ASN_OCTETSTRING, 2, 1, 2 >>,
       cbEncoded |-> 4]
      : e \in DispEncs, id \in DispIds, o \in { "none", "size", "write" } }

\* the arguments of the registry operations drawn
RegArgs ==
    { [enc |-> e, func |-> f, id |-> id, dll |-> d, override |-> o, valueName |-> v,
       value |-> x]
      : e \in { X509_ASN_ENCODING, PKCS_7_ASN_ENCODING },
        f \in { Null, Ptr("CryptEncodeObject") },
        id \in { NumId(0), StrId("1.2.3") },
        d \in { Null, Ptr("plugin.dll") },
        o \in { Null, Ptr("Override") },
        v \in { Ptr("Dll") },
        x \in { [type |-> REG_DWORD, data |-> "plugin.dll"] } }

NoCall == [op |-> "", a |-> Null]

InitDisp ==
    /\ pc = "ready"
    /\ call = NoCall
    /\ res = NoRes
    /\ prev = NoRes
    /\ loc \in [reg : DispRegistries, lastError : DispLastErrors,
                loads : { 0 }, frees : { 0 }, n : { 0 }]

\* a registry operation op with the arguments a returns with the outcome o
RegReturn(op, a, o) ==
    /\ pc' = "returned"
    /\ call' = [op |-> op, a |-> Ptr(a)]
    /\ res' = o
    /\ loc' = [loc EXCEPT !.reg = o.reg,
                          !.lastError = IF o.err = "" THEN @ ELSE o.err]
    /\ prev' = prev

\* a dispatching entry point op with the arguments a returns with the
\* outcome o
DispReturn(op, a, o) ==
    /\ pc' = "returned"
    /\ call' = [op |-> op, a |-> Ptr(a)]
    /\ res' = o
    /\ loc' = [loc EXCEPT !.lastError = o.err,
                          !.loads = @ + o.loads,
                          !.frees = @ + o.frees]
    /\ prev' = prev

RegisterOIDFunction ==
    /\ pc = "ready"
    /\ \E a \in RegArgs :
          RegReturn("CryptRegisterOIDFunction", a,
                    CryptRegisterOIDFunction(loc.reg, a.enc, a.func, a.id, a.dll,
                                             a.override))

UnregisterOIDFunction ==
    /\ pc = "ready"
    /\ \E a \in RegArgs :
          RegReturn("CryptUnregisterOIDFunction", a,
                    CryptUnregisterOIDFunction(loc.reg, a.enc, a.func, a.id))

GetOIDFunctionValue ==
    /\ pc = "ready"
    /\ \E a \in RegArgs :
          RegReturn("CryptGetOIDFunctionValue", a,
                    CryptGetOIDFunctionValue(loc.reg, a.enc, a.func, a.id, a.valueName))

SetOIDFunctionValue ==
    /\ pc = "ready"
    /\ \E a \in RegArgs :
          RegReturn("CryptSetOIDFunctionValue", a,
                    CryptSetOIDFunctionValue(loc.reg, a.enc, a.func, a.id, a.valueName,
                                             a.value))

EncodeObject ==
    /\ pc = "ready"
    /\ \E a \in DispArgs :
          \E o \in CryptEncodeObject(loc.reg, loc.lastError, a) :
             DispReturn("CryptEncodeObject", a, o)

EncodeObjectEx ==
    /\ pc = "ready"
    /\ \E a \in DispArgs :
          \E o \in CryptEncodeObjectEx(loc.reg, a) :
             DispReturn("CryptEncodeObjectEx", a, o)

DecodeObject ==
    /\ pc = "ready"
    /\ \E a \in DispArgs :
          \E o \in CryptDecodeObject(loc.reg, loc.lastError, a) :
             DispReturn("CryptDecodeObject", a, o)

DecodeObjectEx ==
    /\ pc = "ready"
    /\ \E a \in DispArgs :
          \E o \in CryptDecodeObjectEx(loc.reg, a) :
             DispReturn("CryptDecodeObjectEx", a, o)

\* the thread goes on to its next call
NextCall ==
    /\ pc = "returned"
    /\ loc.n + 1 < MaxCalls
    /\ pc' = "ready"
    /\ call' = NoCall
    /\ res' = NoRes
    /\ loc' = [loc EXCEPT !.n = @ + 1]
    /\ prev' = prev

NextDisp ==
    \/ RegisterOIDFunction
    \/ UnregisterOIDFunction
    \/ GetOIDFunctionValue
    \/ SetOIDFunctionValue
    \/ EncodeObject
    \/ EncodeObjectEx
    \/ DecodeObject
    \/ DecodeObjectEx
    \/ NextCall

SpecDisp == InitDisp /\ [][NextDisp]_vars

-----------------------------------------------------------------------------
(* The dispatching entry points and the registry (C12 .. C16).             *)

ExNames == { "CryptEncodeObjectEx", "CryptDecodeObjectEx" }

\* the name an entry point looks up in the registry
ExNameOf(op) ==
    IF op \in { "CryptEncodeObject", "CryptEncodeObjectEx" } THEN "CryptEncodeObjectEx"
    ELSE "CryptDecodeObjectEx"

\* a dispatching entry point has returned; its arguments are Args
Dispatching == pc = "returned" /\ call.op \in DispatchNames

Args == Deref(call.a)

\* the encoding type selects neither X.509 in its certificate half nor
\* PKCS #7 in its message half
UnknownFamily(enc) ==
    /\ GET_CERT_ENCODING_TYPE(enc) # X509_ASN_ENCODING
    /\ GET_CMSG_ENCODING_TYPE(enc) # PKCS_7_ASN_ENCODING

\* the call failed before any codec ran and before the registry was looked at
FailedAtOnce(err) ==
    /\ ~res.ret
    /\ res.err = err
    /\ res.by = ""
    /\ res.looked = << >>

\* C12 as stated: CryptEncodeObjectEx and CryptDecodeObjectEx fail with
\* ERROR_FILE_NOT_FOUND, running no codec and not consulting the registry,
\* whenever the encoding type selects neither family, for every structure id.
C12_UnknownFamilyNotFound ==
    (Dispatching /\ call.op \in ExNames /\ UnknownFamily(Args.enc)) =>
        FailedAtOnce(ERROR_FILE_NOT_FOUND)

\* C12 amended: with an encoding type that selects neither family the Ex
\* entry points fail, running no codec and not consulting the registry, for
\* every structure id; the error is ERROR_FILE_NOT_FOUND unless the output
\* pointer and the size cell are both null, which is tested first and gives
\* ERROR_INVALID_PARAMETER.
C12_UnknownFamilyFails ==
    (Dispatching /\ call.op \in ExNames /\ UnknownFamily(Args.enc)) =>
        FailedAtOnce(IF Args.out = "none" THEN ERROR_INVALID_PARAMETER
                     ELSE ERROR_FILE_NOT_FOUND)

\* an Ex entry point has refused an unknown family for a structure id that
\* has a built-in codec, with a size cell at hand
C12_Witness ==
    /\ Dispatching
    /\ call.op \in ExNames
    /\ UnknownFamily(Args.enc)
    /\ Args.out = "write"
    /\ BuiltIn(Args.id) # ""
    /\ FailedAtOnce(ERROR_FILE_NOT_FOUND)

\* the call got past the tests of its pointers and of the encoding type
Admitted == Args.out # "none" /\ ~UnknownFamily(Args.enc)

\* the Ex entry point's way: the built-in codec of the structure id and no
\* look at the registry; without a built-in codec one lookup under the Ex
\* name (after the lookups in before) and ERROR_FILE_NOT_FOUND when that
\* gives nothing
ExWay(before) ==
    IF BuiltIn(Args.id) # ""
    THEN res.by = BuiltIn(Args.id) /\ res.looked = before
    ELSE /\ res.looked = before \o << ExNameOf(call.op) >>
         /\ res.by \in { "", "plugin" }
         /\ res.by = "" => (~res.ret /\ res.err = ERROR_FILE_NOT_FOUND)

\* C13 as stated: in both pairs of entry points a structure id with a
\* built-in codec is handled by that codec whatever the registry holds, the
\* registry is consulted only after the built-in table and the OID list
\* have missed, and the call fails with ERROR_FILE_NOT_FOUND when the
\* registry gives nothing.
C13_BuiltInFirst == (Dispatching /\ Admitted) => ExWay(<< >>)

\* C13 amended: CryptEncodeObjectEx and CryptDecodeObjectEx go the way the
\* claim states.  CryptEncodeObject and CryptDecodeObject look in the
\* registry first, under their own name and whatever the structure id and
\* the encoding type are; the registered function handles the call when the
\* lookup gives one, and only otherwise does the call go the Ex way.
C13_RegisteredFirstInPlainPair ==
    Dispatching =>
        IF call.op \in ExNames THEN Admitted => ExWay(<< >>)
        ELSE Args.out # "none" =>
                /\ res.looked # << >>
                /\ res.looked[1] = call.op
                /\ \/ res.by = "plugin" /\ res.looked = << call.op >>
                   \/ UnknownFamily(Args.enc) /\ res.by = "" /\ res.looked = << call.op >>
                   \/ ~UnknownFamily(Args.enc) /\ ExWay(<< call.op >>)

\* CryptEncodeObject or CryptDecodeObject has handed a structure id that
\* has a built-in codec to a registered function
C13_Witness ==
    /\ Dispatching
    /\ call.op \notin ExNames
    /\ BuiltIn(Args.id) # ""
    /\ res.by = "plugin"

\* the registry holds, for the Ex name of the call and its structure id, a
\* string-typed module name that loads and a symbol that resolves in it
Pluggable ==
    LET k == CRYPT_GetKeyName(Args.enc, call.op, Args.id)
    IN  /\ k \in DOMAIN loc.reg
        /\ loc.reg[k].Dll.type = REG_SZ
        /\ loc.reg[k].Dll.data \in Loadable
        /\ (IF loc.reg[k].FuncName.type = REG_SZ THEN loc.reg[k].FuncName.data
            ELSE call.op) \in Exports(loc.reg[k].Dll.data)

\* C14: when the registry holds a string-typed module name for the Ex name
\* and the structure id, the id has no built-in codec and module and symbol
\* resolve, the Ex entry point calls the resolved function with the
\* original arguments and returns its result, whatever the last error was
\* before the call.
C14_PluginCalled ==
    (/\ Dispatching
     /\ call.op \in ExNames
     /\ Admitted
     /\ BuiltIn(Args.id) = ""
     /\ Pluggable) =>
        /\ res.by = "plugin"
        /\ res.args = call.a

\* C15: every module the registry lookup loaded has been released once when
\* the call that loaded it returns: none is held between calls and none is
\* released twice.
C15_ModulesReleased ==
    /\ loc.loads = loc.frees
    /\ Dispatching => (res.loads = res.frees /\ res.loads <= Len(res.looked))

\* after a call that loaded and released a module, a second call that loaded
\* a module, found no symbol in it and released it has returned
C15_Witness ==
    /\ Dispatching
    /\ loc.loads = 2
    /\ res.loads = 1
    /\ res.by = ""

\* a registry operation has returned
RegOps ==
    { "CryptRegisterOIDFunction", "CryptUnregisterOIDFunction",
      "CryptGetOIDFunctionValue", "CryptSetOIDFunctionValue" }

\* in the next state a registry operation has returned from a call with a
\* null pszFuncName or a null pszOID
NullNamed ==
    /\ pc' = "returned"
    /\ call'.op \in RegOps
    /\ (Deref(call'.a).func = Null \/ Deref(call'.a).id = NumId(0))

\* C16 as stated: each registry operation called with a null function name
\* or a null OID fails with ERROR_INVALID_PARAMETER and leaves the registry
\* unchanged, for every encoding type and every module name.
C16_NullRejected ==
    [][NullNamed =>
         /\ ~res'.ret
         /\ res'.err = ERROR_INVALID_PARAMETER
         /\ loc'.reg = loc.reg]_vars

\* the operation returns TRUE before it looks at the names: the encoding
\* type has no certificate half, or the module name of a registration is
\* null
NoOp(op, a) ==
    \/ GET_CERT_ENCODING_TYPE(a.enc) = 0
    \/ op = "CryptRegisterOIDFunction" /\ a.dll = Null

\* C16 amended: a registry operation called with a null function name or a
\* null OID leaves the registry unchanged; it fails with
\* ERROR_INVALID_PARAMETER when the encoding type has a certificate half
\* (and, for a registration, the module name is not null), and otherwise
\* returns TRUE without doing anything.
C16_NullRejectedUnlessNoOp ==
    [][NullNamed =>
         /\ loc'.reg = loc.reg
         /\ IF NoOp(call'.op, Deref(call'.a))
            THEN res'.ret /\ loc'.lastError = loc.lastError
            ELSE ~res'.ret /\ res'.err = ERROR_INVALID_PARAMETER]_vars

\* a registration with a null function name, a module name and an X.509
\* encoding type was rejected while the registry held a key
C16_Witness ==
    /\ pc = "returned"
    /\ call.op = "CryptRegisterOIDFunction"
    /\ Args.func = Null
    /\ Args.dll # Null
    /\ GET_CERT_ENCODING_TYPE(Args.enc) # 0
    /\ ~res.ret
    /\ res.err = ERROR_INVALID_PARAMETER
    /\ loc.reg # << >>

-----------------------------------------------------------------------------
(* Time decoders.  A SYSTEMTIME is the record of its WORD fields.  The     *)
(* FILETIME a decoder stores is carried as the SYSTEMTIME it was made of.  *)

CH_PLUS == 43

CH_COMMA == 44

MIN_ENCODED_TIME_LENGTH == 10

\* a WORD holding n
WordOf(n) == n % 65536

\* SYSTEMTIME sysTime = { 0 }
ZeroSystemTime ==
    [wYear |-> 0, wMonth |-> 0, wDay |-> 0, wHour |-> 0, wMinute |-> 0,
     wSecond |-> 0, wMilliseconds |-> 0]

\* the parser's place: pbEncoded as an offset into the memory, the length
\* left, the WORD the last CRYPT_TIME_GET_DIGITS filled and whether every
\* character it looked at was a digit
TimePlace(ok, pos, len, word) == [ok |-> ok, pos |-> pos, len |-> len, word |-> word]

\* CRYPT_TIME_GET_DIGITS(pbEncoded, len, numDigits, word), its loop from
\* turn i on: at most numDigits digits and no more than len
RECURSIVE CRYPT_TIME_GET_DIGITS(_, _, _, _, _, _)
CRYPT_TIME_GET_DIGITS(mem, pos, len, numDigits, i, word) ==
    IF ~(len > 0 /\ i < numDigits) THEN TimePlace(TRUE, pos, len, word)
    ELSE IF ~IsDigit(MemAt(mem, pos)) THEN TimePlace(FALSE, pos, len, word)
    ELSE CRYPT_TIME_GET_DIGITS(mem, pos + 1, len - 1, numDigits, i + 1,
                               WordOf(word * 10 + (MemAt(mem, pos) - CH_0)))

\* what a parsing step hands on: the place and the SYSTEMTIME so far
TimeParsed(ok, pos, len, st) == [ok |-> ok, pos |-> pos, len |-> len, st |-> st]

\* successive CRYPT_TIME_GET_DIGITS, one for each << field, numDigits >> of
\* fields, stopping at the first character that is no digit
RECURSIVE TimeFields(_, _, _, _, _)
TimeFields(mem, pos, len, fields, st) ==
    IF fields = << >> THEN TimeParsed(TRUE, pos, len, st)
    ELSE IF ~CRYPT_TIME_GET_DIGITS(mem, pos, len, Head(fields)[2], 0, 0).ok
    THEN TimeParsed(FALSE,
                    CRYPT_TIME_GET_DIGITS(mem, pos, len, Head(fields)[2], 0, 0).pos,
                    CRYPT_TIME_GET_DIGITS(mem, pos, len, Head(fields)[2], 0, 0).len, st)
    ELSE TimeFields(mem,
                    CRYPT_TIME_GET_DIGITS(mem, pos, len, Head(fields)[2], 0, 0).pos,
                    CRYPT_TIME_GET_DIGITS(mem, pos, len, Head(fields)[2], 0, 0).len,
                    Tail(fields),
                    [st EXCEPT ![Head(fields)[1]] =
                        CRYPT_TIME_GET_DIGITS(mem, pos, len, Head(fields)[2], 0, 0).word])

\* CRYPT_AsnDecodeTimeZone, lines 2272-2293: the offset of hours and minutes
\* applied to sysTime, in WORD arithmetic
TimeZoneApplied(sign, hours, minutes, st) ==
    IF sign = CH_PLUS
    THEN [st EXCEPT !.wHour = WordOf(st.wHour + hours),
                    !.wMinute = WordOf(st.wMinute + minutes)]
    ELSE [st EXCEPT
            !.wDay = IF hours > st.wHour THEN WordOf(st.wDay - 1) ELSE st.wDay,
            !.wHour = WordOf((IF hours > st.wHour THEN 24 - (hours - st.wHour)
                              ELSE st.wHour - hours)
                             - (IF minutes > st.wMinute THEN 1 ELSE 0)),
            !.wMinute = IF minutes > st.wMinute THEN 60 - (minutes - st.wMinute)
                        ELSE st.wMinute - minutes]

\* CRYPT_AsnDecodeTimeZone, lines 2263-2271, after the hours h were read:
\* the minutes, when two characters are left
TimeZoneMinutes(mem, sign, h, st) ==
    IF h.len >= 2
    THEN (IF ~CRYPT_TIME_GET_DIGITS(mem, h.pos, h.len, 2, 0, 0).ok
          THEN TimeParsed(FALSE, h.pos, h.len, st)
          ELSE IF CRYPT_TIME_GET_DIGITS(mem, h.pos, h.len, 2, 0, 0).word >= 60
          THEN TimeParsed(FALSE, h.pos + 2, h.len - 2, st)
          ELSE TimeParsed(TRUE, h.pos + 2, h.len - 2,
                 TimeZoneApplied(sign, h.word,
                    CRYPT_TIME_GET_DIGITS(mem, h.pos, h.len, 2, 0, 0).word, st)))
    ELSE TimeParsed(TRUE, h.pos, h.len, TimeZoneApplied(sign, h.word, 0, st))

\* CRYPT_AsnDecodeTimeZone(pbEncoded, len, sysTime): every failure sets
\* CRYPT_E_ASN1_CORRUPT; what is neither '+' nor '-', or shorter than three
\* characters, is passed over
CRYPT_AsnDecodeTimeZone(mem, pos, len, st) ==
    IF len >= 3 /\ MemAt(mem, pos) \in { CH_PLUS, CH_MINUS }
    THEN (IF ~CRYPT_TIME_GET_DIGITS(mem, pos + 1, len - 1, 2, 0, 0).ok
          THEN TimeParsed(FALSE, pos + 1, len - 1, st)
          ELSE IF CRYPT_TIME_GET_DIGITS(mem, pos + 1, len - 1, 2, 0, 0).word >= 24
          THEN TimeParsed(FALSE, pos + 3, len - 3, st)
          ELSE TimeZoneMinutes(mem, MemAt(mem, pos),
                               CRYPT_TIME_GET_DIGITS(mem, pos + 1, len - 1, 2, 0, 0), st))
    ELSE TimeParsed(TRUE, pos, len, st)

\* the days of month m of year y
DaysInMonth(y, m) ==
    IF m = 2 THEN (IF y % 4 = 0 /\ (y % 100 # 0 \/ y % 400 = 0) THEN 29 ELSE 28)
    ELSE IF m \in { 4, 6, 9, 11 } THEN 30 ELSE 31

\* SystemTimeToFileTime(&sysTime, ft): it answers FALSE for a SYSTEMTIME
\* that is no calendar instant
SystemTimeToFileTime(st) ==
    /\ st.wYear >= 1601
    /\ st.wMonth \in 1..12
    /\ st.wDay >= 1
    /\ st.wDay <= DaysInMonth(st.wYear, st.wMonth)
    /\ st.wHour < 24
    /\ st.wMinute < 60
    /\ st.wSecond < 60
    /\ st.wMilliseconds < 1000

\* the end of a time decoder, lines 2359-2371: t is what the parsing gave
TimeStored(p, t) ==
    IF ~t.ok THEN DecFail(CRYPT_E_ASN1_CORRUPT, p, t.pos + 1)
    ELSE IF ~CRYPT_DecodeEnsureSpace(p.alloc, p.allocOk, p.cb, SIZEOF_FILETIME).ret
    THEN DecWritten(CRYPT_DecodeEnsureSpace(p.alloc, p.allocOk, p.cb, SIZEOF_FILETIME),
                    p, t.st, t.pos, t.pos) @@ [st |-> t.st]
    ELSE IF SystemTimeToFileTime(t.st)
    THEN DecWritten(CRYPT_DecodeEnsureSpace(p.alloc, p.allocOk, p.cb, SIZEOF_FILETIME),
                    p, t.st, t.pos, t.pos) @@ [st |-> t.st]
    ELSE [ret |-> FALSE, err |-> ERROR_INVALID_PARAMETER,
          cb |-> CRYPT_DecodeEnsureSpace(p.alloc, p.allocOk, p.cb, SIZEOF_FILETIME).cb,
          val |-> Null, rd |-> t.pos, fault |-> t.pos > Len(p.mem), st |-> t.st]

\* the tests both time decoders begin with, lines 2309-2340: the outcome
\* of the call that stops at one of them, in a tuple, and << >> for a call
\* that gets past them
TimeHeader(p, tag) ==
    IF p.nullIn \/ p.cbEncoded = 0 THEN << DecNoInput(p) >>
    ELSE IF ~p.hasBuf THEN << DecSized(SIZEOF_FILETIME, p, 0) >>
    ELSE IF At(p.mem, 0) # tag THEN << DecFail(CRYPT_E_ASN1_BADTAG, p, 1) >>
    ELSE IF p.cbEncoded <= 1 THEN << DecFail(CRYPT_E_ASN1_EOD, p, 1) >>
    ELSE IF At(p.mem, 1) > 127 THEN << DecFail(CRYPT_E_ASN1_CORRUPT, p, 2) >>
    ELSE IF At(p.mem, 1) < MIN_ENCODED_TIME_LENGTH
    THEN << DecFail(CRYPT_E_ASN1_CORRUPT, p, 2) >>
    ELSE << >>

\* sysTime.wYear of a two-digit year, lines 2343-2346
UtcYear(st) ==
    [st EXCEPT !.wYear = IF st.wYear >= 50 THEN st.wYear + 1900 ELSE st.wYear + 2000]

\* CRYPT_AsnDecodeUtcTime, lines 2351-2358: t is the place behind the
\* minutes; the seconds of one or two digits, then the time zone
UtcTimeTail(mem, t) ==
    IF ~t.ok \/ t.len = 0 THEN t
    ELSE IF t.len >= 2 /\ IsDigit(MemAt(mem, t.pos)) /\ IsDigit(MemAt(mem, t.pos + 1))
    THEN CRYPT_AsnDecodeTimeZone(mem, t.pos + 2, t.len - 2,
            TimeFields(mem, t.pos, t.len, << << "wSecond", 2 >> >>, t.st).st)
    ELSE IF IsDigit(MemAt(mem, t.pos))
    THEN CRYPT_AsnDecodeTimeZone(mem, t.pos + 1, t.len - 1,
            TimeFields(mem, t.pos, t.len, << << "wSecond", 1 >> >>, t.st).st)
    ELSE CRYPT_AsnDecodeTimeZone(mem, t.pos, t.len, t.st)

\* CRYPT_AsnDecodeUtcTime, lines 2342-2350: t is the place behind the year
UtcTimeRest(mem, t) ==
    IF ~t.ok THEN t
    ELSE UtcTimeTail(mem,
            TimeFields(mem, t.pos, t.len,
                       << << "wMonth", 2 >>, << "wDay", 2 >>, << "wHour", 2 >>,
                          << "wMinute", 2 >> >>,
                       UtcYear(t.st)))

\* CRYPT_AsnDecodeUtcTime(pbEncoded, cbEncoded, dwFlags, pDecodePara,
\* pvStructInfo, pcbStructInfo)
CRYPT_AsnDecodeUtcTime(p) ==
    IF TimeHeader(p, ASN_UTCTIME) # << >> THEN TimeHeader(p, ASN_UTCTIME)[1]
    ELSE TimeStored(p,
            UtcTimeRest(p.mem,
                TimeFields(p.mem, 2, At(p.mem, 1), << << "wYear", 2 >> >>,
                           ZeroSystemTime)))

\* CRYPT_AsnDecodeGeneralizedTime, lines 2424-2434: t is the place behind
\* the seconds; a '.' or ',' and min(len, 3) digits into wMilliseconds,
\* then the time zone
GeneralizedTimeFraction(mem, t) ==
    IF ~t.ok THEN t
    ELSE IF t.len > 0 /\ MemAt(mem, t.pos) \in { CH_DOT, CH_COMMA }
    THEN (IF ~TimeFields(mem, t.pos + 1, t.len - 1,
                         << << "wMilliseconds", Min(t.len - 1, 3) >> >>, t.st).ok
          THEN TimeFields(mem, t.pos + 1, t.len - 1,
                          << << "wMilliseconds", Min(t.len - 1, 3) >> >>, t.st)
          ELSE CRYPT_AsnDecodeTimeZone(mem,
                  t.pos + 1 + Min(t.len - 1, 3), t.len - 1 - Min(t.len - 1, 3),
                  TimeFields(mem, t.pos + 1, t.len - 1,
                             << << "wMilliseconds", Min(t.len - 1, 3) >> >>, t.st).st))
    ELSE CRYPT_AsnDecodeTimeZone(mem, t.pos, t.len, t.st)

\* CRYPT_AsnDecodeGeneralizedTime, lines 2419-2423: t is the place behind
\* the hour; the minutes, and the seconds when anything is left
GeneralizedTimeTail(mem, t) ==
    IF ~t.ok \/ t.len = 0 THEN t
    ELSE IF ~TimeFields(mem, t.pos, t.len, << << "wMinute", 2 >> >>, t.st).ok
    THEN TimeFields(mem, t.pos, t.len, << << "wMinute", 2 >> >>, t.st)
    ELSE IF TimeFields(mem, t.pos, t.len, << << "wMinute", 2 >> >>, t.st).len > 0
    THEN GeneralizedTimeFraction(mem,
            TimeFields(mem, t.pos, t.len,
                       << << "wMinute", 2 >>, << "wSecond", 2 >> >>, t.st))
    ELSE GeneralizedTimeFraction(mem,
            TimeFields(mem, t.pos, t.len, << << "wMinute", 2 >> >>, t.st))

\* CRYPT_AsnDecodeGeneralizedTime(pbEncoded, cbEncoded, dwFlags,
\* pDecodePara, pvStructInfo, pcbStructInfo)
CRYPT_AsnDecodeGeneralizedTime(p) ==
    IF TimeHeader(p, ASN_GENERALTIME) # << >> THEN TimeHeader(p, ASN_GENERALTIME)[1]
    ELSE TimeStored(p,
            GeneralizedTimeTail(p.mem,
                TimeFields(p.mem, 2, At(p.mem, 1),
                           << << "wYear", 4 >>, << "wMonth", 2 >>, << "wDay", 2 >>,
                              << "wHour", 2 >> >>,
                           ZeroSystemTime)))

\* CRYPT_AsnDecodeChoiceOfTime(pbEncoded, cbEncoded, dwFlags, pDecodePara,
\* pvStructInfo, pcbStructInfo)
CRYPT_AsnDecodeChoiceOfTime(p) ==
    IF p.nullIn \/ p.cbEncoded = 0 THEN DecNoInput(p)
    ELSE IF ~p.hasBuf THEN DecSized(SIZEOF_FILETIME, p, 0)
    ELSE IF At(p.mem, 0) = ASN_UTCTIME THEN CRYPT_AsnDecodeUtcTime(p)
    ELSE IF At(p.mem, 0) = ASN_GENERALTIME THEN CRYPT_AsnDecodeGeneralizedTime(p)
    ELSE DecFail(CRYPT_E_ASN1_BADTAG, p, 1)

-----------------------------------------------------------------------------
(* SpecTime: one call of a time decoder, of the fixed-width integer or the *)
(* enumerated decoder, or of the UTCTime encoder followed by the UTCTime   *)
(* decoder on what was written.                                            *)

\* month and day as the decoders read them, and a month that is no number
TimeDates ==
    { Fmt02(1) \o Fmt02(1), Fmt02(4) \o Fmt02(15), Fmt02(15) \o Fmt02(4),
      << CH_0, CH_Z >> \o Fmt02(1) }

\* the time zones drawn: none, Z, offsets of hours and minutes or of hours
\* alone, offsets out of range and one that is no number
TimeZones ==
    { << >>, << CH_Z >>,
      << CH_PLUS >> \o Fmt02(1) \o Fmt02(0),
      << CH_MINUS >> \o Fmt02(0) \o Fmt02(30),
      << CH_MINUS >> \o Fmt02(1) \o Fmt02(0),
      << CH_MINUS >> \o Fmt02(1),
      << CH_MINUS >> \o Fmt02(24) \o Fmt02(0),
      << CH_PLUS >> \o Fmt02(0) \o Fmt02(60),
      << CH_MINUS, CH_Z, CH_0 >> }

\* YYMMDDHHMM, seconds of no, one or two digits, and a time zone
UtcContents ==
    { Fmt02(y) \o md \o hm \o sec \o tz
      : y \in { 0, 49, 50, 99 }, md \in TimeDates,
        hm \in { Fmt02(0) \o Fmt02(0), Fmt02(0) \o Fmt02(10), Fmt02(23) \o Fmt02(59) },
        sec \in { << >>, << CH_0 + 5 >>, Fmt02(30) },
        tz \in TimeZones }

\* the fractions of a second drawn: none, ",5", ".12", ".123", ".1234"
TimeFractions ==
    { << >>, << CH_COMMA, CH_0 + 5 >>, << CH_DOT, CH_0 + 1, CH_0 + 2 >>,
      << CH_DOT, CH_0 + 1, CH_0 + 2, CH_0 + 3 >>,
      << CH_DOT, CH_0 + 1, CH_0 + 2, CH_0 + 3, CH_0 + 4 >> }

\* YYYYMMDDHH, minutes and seconds or not, a fraction and a time zone
GeneralizedContents ==
    { Fmt04(y) \o md \o Fmt02(h) \o ms \o f \o tz
      : y \in { 1600, 2015 }, md \in { Fmt02(1) \o Fmt02(1), Fmt02(4) \o Fmt02(15) },
        h \in { 0, 23 },
        ms \in { << >>, Fmt02(10), Fmt02(10) \o Fmt02(30) },
        f \in TimeFractions, tz \in TimeZones }

\* the memory at pbEncoded: either content behind either tag, a content
\* that is too short, a length in long form and no content at all
TimeMems ==
    { << t, Len(c) >> \o c
      : t \in { ASN_UTCTIME, ASN_GENERALTIME }, c \in UtcContents \cup GeneralizedContents }
    \cup { << t, 9 >> \o Fmt04(2015) \o Fmt04(101) \o << CH_0 >>
           : t \in { ASN_UTCTIME, ASN_GENERALTIME } }
    \cup { << t, 129, 10 >> \o Fmt04(2015) \o Fmt04(101) \o Fmt02(0)
           : t \in { ASN_UTCTIME, ASN_GENERALTIME } }
    \cup { << t, 0 >> : t \in { ASN_UTCTIME, ASN_GENERALTIME } }

\* decoder calls on the whole of a memory: a sizing call, writing calls
\* with room and without, and an allocating call
TimeDecParams ==
    { [nullIn |-> FALSE, mem |-> m, cbEncoded |-> Len(m), nocopy |-> FALSE,
       hasBuf |-> e.hasBuf, alloc |-> e.alloc, allocOk |-> e.allocOk, cb |-> e.cb]
      : m \in TimeMems,
        e \in { x \in EncParams : x.cb \in { 0, CapStep * MaxCapSteps } /\ x.allocOk } }

TimeDecCodecs == { "DecodeUtcTime", "DecodeGeneralizedTime", "DecodeChoiceOfTime" }

InitTime ==
    /\ pc = "ready"
    /\ call \in
            { [codec |-> c, info |-> Null, p |-> d]
              : c \in TimeDecCodecs, d \in TimeDecParams }
            \cup { [codec |-> c, info |-> Null, p |-> d]
                   : c \in { "DecodeInt", "DecodeEnumerated" },
                     d \in { x \in BlobDecParams : ~x.nocopy } }
            \cup { [codec |-> "EncodeUtcTime", info |-> Ptr(t), p |-> e]
                   : t \in FileTimes, e \in EncParams }
    /\ res = NoRes
    /\ prev = NoRes
    /\ loc = NoLoc

DecodeUtcTime ==
    /\ pc = "ready"
    /\ call.codec = "DecodeUtcTime"
    /\ Return(CRYPT_AsnDecodeUtcTime(call.p))

DecodeGeneralizedTime ==
    /\ pc = "ready"
    /\ call.codec = "DecodeGeneralizedTime"
    /\ Return(CRYPT_AsnDecodeGeneralizedTime(call.p))

DecodeChoiceOfTime ==
    /\ pc = "ready"
    /\ call.codec = "DecodeChoiceOfTime"
    /\ Return(CRYPT_AsnDecodeChoiceOfTime(call.p))

\* the UTCTime decoder on the bytes the UTCTime encoder wrote
DecodeUtcTimeBack ==
    /\ pc = "returned"
    /\ call.codec = "EncodeUtcTime"
    /\ call.p.hasBuf
    /\ res.ret
    /\ pc' = "decoded"
    /\ prev' = res
    /\ res' = CRYPT_AsnDecodeUtcTime(
                 [nullIn |-> FALSE, mem |-> res.out, cbEncoded |-> Len(res.out),
                  nocopy |-> FALSE, hasBuf |-> TRUE, alloc |-> FALSE,
                  allocOk |-> TRUE, cb |-> SIZEOF_FILETIME])
    /\ UNCHANGED << call, loc >>

NextTime ==
    \/ DecodeUtcTime
    \/ DecodeGeneralizedTime
    \/ DecodeChoiceOfTime
    \/ DecodeInt
    \/ DecodeEnumerated
    \/ EncodeUtcTime
    \/ DecodeUtcTimeBack

SpecTime == InitTime /\ [][NextTime]_vars

-----------------------------------------------------------------------------
(* The time decoders (C21, C22, C25, C28).                                 *)

\* the offset in the memory of the character behind YYYYMMDDHHMMSS
FractionAt == 2 + 14

\* a GeneralizedTime of YYYYMMDDHHMMSS and a fraction was decoded into a
\* buffer
FractionDecoded ==
    /\ pc = "returned"
    /\ call.codec = "DecodeGeneralizedTime"
    /\ call.p.hasBuf
    /\ At(call.p.mem, 0) = ASN_GENERALTIME
    /\ At(call.p.mem, 1) = Len(call.p.mem) - 2
    /\ Len(call.p.mem) > FractionAt + 1
    /\ \A i \in 2..(FractionAt - 1) : IsDigit(At(call.p.mem, i))
    /\ At(call.p.mem, FractionAt) \in { CH_DOT, CH_COMMA }
    /\ IsDigit(At(call.p.mem, FractionAt + 1))

\* the number of digits behind the '.' or ','
FractionLen(mem) ==
    CHOOSE k \in 1..Len(mem) :
        /\ \A i \in 1..k : IsDigit(MemAt(mem, FractionAt + i))
        /\ ~IsDigit(MemAt(mem, FractionAt + k + 1))

\* the first three digits behind the '.' or ',' as thousandths of a second
FractionMs(mem) ==
    100 * (At(mem, FractionAt + 1) - CH_0)
    + (IF FractionLen(mem) >= 2 THEN 10 * (At(mem, FractionAt + 2) - CH_0) ELSE 0)
    + (IF FractionLen(mem) >= 3 THEN At(mem, FractionAt + 3) - CH_0 ELSE 0)

\* what stands behind the digits of the fraction
FractionZone(mem) == SubSeq(mem, FractionAt + FractionLen(mem) + 2, Len(mem))

\* no time zone, Z, or a sign with hours below 24 and, if any, minutes
\* below 60
WellFormedZone(z) ==
    \/ z \in { << >>, << CH_Z >> }
    \/ /\ Len(z) \in { 3, 5 }
       /\ z[1] \in { CH_PLUS, CH_MINUS }
       /\ \A i \in 2..Len(z) : IsDigit(z[i])
       /\ 10 * (z[2] - CH_0) + (z[3] - CH_0) < 24
       /\ Len(z) = 5 => 10 * (z[4] - CH_0) + (z[5] - CH_0) < 60

\* C21: the GeneralizedTime decoder reads a fraction behind '.' or ',' as a
\* decimal fraction of a second of up to 3 digits (",5" is 500 ms, ".12" is
\* 120 ms, ".123" is 123 ms), and accepts a fraction of fewer than 3 digits
\* that a time zone follows.
C21_FractionOfSecond ==
    (FractionDecoded /\ WellFormedZone(FractionZone(call.p.mem))) =>
        /\ "st" \in DOMAIN res
        /\ res.st.wMilliseconds = FractionMs(call.p.mem)

\* the year of the instant handed to the encoder
EncodedYear == FileTimeToSystemTime(Deref(call.info)).st.wYear

\* the two digits a UTCTime begins with
TwoDigitYear(mem) == 10 * (At(mem, 2) - CH_0) + (At(mem, 3) - CH_0)

\* C22: the UTCTime encoder rejects the years outside 1950..2050 with
\* CRYPT_E_BAD_ENCODE, and for every year it accepts the decoding of what
\* it wrote yields the same year; the decoder reads the years 50..99 as
\* 1950..1999 and 00..49 as 2000..2049.  The year is compared as the
\* decoder parsed it, whether or not SystemTimeToFileTime then takes the
\* month and day the encoder wrote in each other's place.
C22_UtcYearRoundTrip ==
    /\ (/\ pc = "returned"
        /\ call.codec = "EncodeUtcTime"
        /\ FileTimeToSystemTime(Deref(call.info)).ok
        /\ EncodedYear \notin 1950..2050) =>
            (~res.ret /\ res.err = CRYPT_E_BAD_ENCODE)
    /\ pc = "decoded" =>
            /\ "st" \in DOMAIN res
            /\ res.st.wYear = EncodedYear
    /\ (pc = "returned" /\ call.codec = "DecodeUtcTime" /\ "st" \in DOMAIN res) =>
            res.st.wYear = (IF TwoDigitYear(call.p.mem) >= 50 THEN 1900 ELSE 2000)
                           + TwoDigitYear(call.p.mem)

\* the number two digits at offset i of the memory spell
TwoDigitsAt(mem, i) == 10 * (At(mem, i) - CH_0) + (At(mem, i + 1) - CH_0)

\* the offset of the hour in a UTCTime and in a GeneralizedTime
TimeHourAt(mem) == IF At(mem, 0) = ASN_UTCTIME THEN 8 ELSE 10

\* the offset of the one '-' in the memory
MinusAt(mem) == CHOOSE i \in 0..(Len(mem) - 1) : At(mem, i) = CH_MINUS

\* a time decoder parsed a time of digits up to the minutes or the seconds
\* whose time zone is '-' with hours below 24 and, if any, minutes below 60
MinusZoneApplied ==
    /\ pc = "returned"
    /\ call.codec \in TimeDecCodecs
    /\ "st" \in DOMAIN res
    /\ \E i \in 0..(Len(call.p.mem) - 1) : At(call.p.mem, i) = CH_MINUS
    /\ MinusAt(call.p.mem) - TimeHourAt(call.p.mem) \in 4..6
    /\ \A i \in 2..(MinusAt(call.p.mem) - 1) : IsDigit(At(call.p.mem, i))
    /\ WellFormedZone(SubSeq(call.p.mem, MinusAt(call.p.mem) + 1, Len(call.p.mem)))

\* the minutes of the offset
MinusZoneMinutes(mem) ==
    60 * TwoDigitsAt(mem, MinusAt(mem) + 1)
    + (IF Len(mem) - MinusAt(mem) = 5 THEN TwoDigitsAt(mem, MinusAt(mem) + 3) ELSE 0)

\* the minute of the day of the wall time less the offset, with the borrow
\* into the day before
MinusZoneExpected(mem) ==
    (60 * TwoDigitsAt(mem, TimeHourAt(mem)) + TwoDigitsAt(mem, TimeHourAt(mem) + 2)
     - MinusZoneMinutes(mem)) % 1440

\* C25: a '-' time zone of H hours and M minutes (H < 24, M < 60) gives the
\* wall time less the offset, borrowing from the minutes into the hours and
\* from the hours into the day: the hour stays in 0..23 and the minute in
\* 0..59, also for the hour 0 with a borrow of minutes.
C25_MinusZoneBorrow ==
    MinusZoneApplied =>
        /\ res.st.wHour \in 0..23
        /\ res.st.wMinute \in 0..59
        /\ 60 * res.st.wHour + res.st.wMinute = MinusZoneExpected(call.p.mem)

\* the decoders of fixed-size values
FixedDecCodecs == TimeDecCodecs \cup { "DecodeInt", "DecodeEnumerated" }

\* the decoder named codec on the call p
FixedDecoder(codec, p) ==
    CASE codec = "DecodeInt" -> CRYPT_AsnDecodeInt(p)
      [] codec = "DecodeEnumerated" -> CRYPT_AsnDecodeEnumerated(p)
      [] codec = "DecodeUtcTime" -> CRYPT_AsnDecodeUtcTime(p)
      [] codec = "DecodeGeneralizedTime" -> CRYPT_AsnDecodeGeneralizedTime(p)
      [] codec = "DecodeChoiceOfTime" -> CRYPT_AsnDecodeChoiceOfTime(p)

\* the writing call that follows the sizing call p, with the capacity cb
WritingAfter(p, cb) == [p EXCEPT !.hasBuf = TRUE, !.alloc = FALSE, !.cb = cb]

\* C28: for the fixed-width integer, enumerated, UTCTime, GeneralizedTime
\* and ChoiceOfTime decoders a sizing call succeeds only for an input the
\* writing call with the capacity reported accepts; an input the writing
\* call refuses (wrong tag, zero or oversized length, malformed digits)
\* fails in the sizing call with the same error.
C28_SizingAgrees ==
    (pc = "returned" /\ call.codec \in FixedDecCodecs /\ ~call.p.hasBuf) =>
        IF FixedDecoder(call.codec, WritingAfter(call.p, SIZEOF_FILETIME)).ret
        THEN res.ret
        ELSE /\ ~res.ret
             /\ res.err = FixedDecoder(call.codec, WritingAfter(call.p, SIZEOF_FILETIME)).err

-----------------------------------------------------------------------------
(* SpecLen: one call of CRYPT_EncodeLen and then CRYPT_GetLen on a tag,    *)
(* the length octets written and the content that follows them; or one     *)
(* call of CRYPT_GetLen on a memory drawn.                                 *)

MaxShortLen == 260

\* the lengths drawn: every one up to MaxShortLen, and those next to the
\* powers of 256
LenValues ==
    (0..MaxShortLen) \cup { 65535, 65536, 16777215, 16777216, 2147483000 }

\* the first length octets drawn in long form: 0x80 | n
LongFormOctets == (128..136) \cup { 255 }

InitLen ==
    /\ pc = "ready"
    /\ call \in
            { [codec |-> "EncodeLen", len |-> n, hasBuf |-> h, cb |-> c, content |-> b]
              : n \in LenValues, h \in BOOLEAN, c \in { 1, 1 + SIZEOF_DWORD },
                b \in { 0, 255 } }
            \cup { [codec |-> "GetLen", mem |-> << ASN_OCTETSTRING, b >> \o t,
                    cbEncoded |-> c]
                   : b \in LongFormOctets, t \in [1..(1 + SIZEOF_DWORD) -> { 0, 1 }],
                     c \in { 2, 2 + 1 + SIZEOF_DWORD, 65536 } }
    /\ res = NoRes
    /\ prev = NoRes
    /\ loc = NoLoc

EncodeLen ==
    /\ pc = "ready"
    /\ call.codec = "EncodeLen"
    /\ Return(CRYPT_EncodeLen(call.len, call.hasBuf, call.cb))

\* CRYPT_GetLen on a tag, the length octets CRYPT_EncodeLen wrote and the
\* first content octet, in a buffer that holds the whole content
GetLenBack ==
    /\ pc = "returned"
    /\ call.codec = "EncodeLen"
    /\ call.hasBuf
    /\ res.ret
    /\ pc' = "decoded"
    /\ prev' = res
    /\ res' = CRYPT_GetLen(
                 << ASN_OCTETSTRING >> \o res.out
                    \o (IF call.len = 0 THEN << >> ELSE << call.content >>),
                 1 + Len(res.out) + call.len)
    /\ UNCHANGED << call, loc >>

GetLen ==
    /\ pc = "ready"
    /\ call.codec = "GetLen"
    /\ Return(CRYPT_GetLen(call.mem, call.cbEncoded))

NextLen ==
    \/ EncodeLen
    \/ GetLenBack
    \/ GetLen

SpecLen == InitLen /\ [][NextLen]_vars

\* C23: for every length the length encoder emits, the length decoder,
\* reading the octets back behind a tag with the content available,
\* returns exactly that length; in long form it assembles the n octets
\* behind the octet 0x80|n and no content octet.
C23_LenRoundTrip ==
    pc = "decoded" =>
        /\ res.ret
        /\ res.len = WFromNat(call.len)
        /\ res.rd = 1 + Len(prev.out)

\* C24: the length decoder fails with CRYPT_E_ASN1_LARGE exactly when the
\* first length octet is 0x80|n with n > 4: 0x85 and higher are rejected
\* so, 0x81..0x84 never are.
C24_LargeOnlyAboveFour ==
    (pc = "returned" /\ call.codec = "GetLen" /\ call.cbEncoded > 1) =>
        ((~res.ret /\ res.err = CRYPT_E_ASN1_LARGE) <=> At(call.mem, 1) % 128 > 4)

-----------------------------------------------------------------------------
(* The capacity test of the OID encoder (C26), under SpecOid.              *)

\* the OID encoder has just returned from a call that was given a buffer
OidEncoderWrote ==
    /\ call.p.hasBuf
    /\ pc = "encoded" \/ (pc = "returned" /\ prev = NoRes)

\* the size Phase A of the OID encoder reports for the call's OID
OidPhaseASize == CRYPT_AsnEncodeOid(call.info, [hasBuf |-> FALSE, cb |-> 0, buf0 |-> 0]).cb

\* C26: Phase B of the OID encoder depends on the capacity in the size
\* cell only, never on what the output buffer held before: with a capacity
\* of at least the Phase-A size it succeeds and writes that many bytes,
\* with less it fails with ERROR_MORE_DATA and writes nothing.
C26_OidCapacityOnly ==
    OidEncoderWrote =>
        IF call.p.cb >= OidPhaseASize
        THEN res.ret /\ Len(res.out) = OidPhaseASize
        ELSE ~res.ret /\ res.err = ERROR_MORE_DATA /\ res.out = << >>

-----------------------------------------------------------------------------
(* The two phases of the OID decoder (C27), under SpecOid.                 *)

\* Phase B of the OID decoder has returned, called with the capacity that
\* Phase A reported in loc.cb
OidDecoderWrote == pc = "returned" /\ prev.ret /\ loc.ret

\* C27: for a well-formed encoded OID the size the OID decoder reports in
\* Phase A is the number of bytes it writes in Phase B, the dotted-decimal
\* string and its terminating NUL, whatever the number of digits of an
\* arc; Phase B does not write beyond that size.
C27_OidDecodeSize ==
    OidDecoderWrote =>
        /\ res.ret
        /\ res.str # Null
        /\ Len(Deref(res.str)) + 1 = loc.cb
        /\ ~res.over

-----------------------------------------------------------------------------
(* SpecBig: one call of a big-integer encoder on a blob drawn by its       *)
(* length, up to encodings longer than a BYTE counts (C29).                *)

MaxBigBlob == 260

\* the blobs drawn: n bytes, all 1 (a positive number that needs no
\* padding) or all 128 (negative when signed, padded when unsigned)
BigBlobs ==
    { [pbData |-> [i \in 1..n |-> b], cUnusedBits |-> 0]
      : n \in 0..MaxBigBlob, b \in { 1, 128 } }

\* a sizing call, writing calls with a small and with a large buffer, and
\* an allocating call
BigEncParams ==
    { [hasBuf |-> FALSE, alloc |-> FALSE, allocOk |-> TRUE, cb |-> 0],
      [hasBuf |-> TRUE, alloc |-> FALSE, allocOk |-> TRUE, cb |-> 2 * SIZEOF_DWORD],
      [hasBuf |-> TRUE, alloc |-> FALSE, allocOk |-> TRUE,
       cb |-> MaxBigBlob + 2 * SIZEOF_DWORD],
      [hasBuf |-> TRUE, alloc |-> TRUE, allocOk |-> TRUE, cb |-> 0] }

InitBig ==
    /\ pc = "ready"
    /\ call \in
            { [codec |-> c, info |-> Ptr(b), adj |-> 0, p |-> e]
              : c \in BlobEncCodecs, b \in BigBlobs, e \in BigEncParams }
    /\ res = NoRes
    /\ prev = NoRes
    /\ loc = NoLoc

NextBig ==
    \/ EncodeInteger
    \/ EncodeUnsignedInteger

SpecBig == InitBig /\ [][NextBig]_vars

\* the number of content octets of the call's blob: the significant bytes
\* and the padding octet
BigContentLen(l) == l.significantBytes + (IF l.pad THEN 1 ELSE 0)

\* 1 + the number of length octets + the number of content octets
BigSize ==
    IF call.codec = "EncodeInteger"
    THEN 1 + LenBytesNeeded(BigContentLen(IntegerLocals(Deref(call.info), call.adj)))
           + BigContentLen(IntegerLocals(Deref(call.info), call.adj))
    ELSE 1 + LenBytesNeeded(BigContentLen(UnsignedIntegerLocals(Deref(call.info), call.adj)))
           + BigContentLen(UnsignedIntegerLocals(Deref(call.info), call.adj))

\* C29: the size the big-integer encoders report in Phase A and check
\* against the capacity in Phase B is 1 + the number of length octets +
\* the number of content octets for every blob length, not reduced modulo
\* 256, so Phase B never writes more bytes than the size it checked.
C29_BigIntegerSize ==
    (pc = "returned" /\ call.codec \in BlobEncCodecs /\ call.info # Null) =>
        /\ ~call.p.hasBuf => res.cb = BigSize
        /\ (call.p.hasBuf /\ ~call.p.alloc) =>
              /\ res.ret <=> call.p.cb >= BigSize
              /\ res.ret => Len(res.out) <= call.p.cb
              /\ ~res.ret => res.cb = BigSize
        /\ (call.p.hasBuf /\ call.p.alloc /\ res.ret) => res.cb = Len(res.out)

-----------------------------------------------------------------------------
(* A registration without an override name (C30), under SpecDisp.          *)

\* CryptRegisterOIDFunction has returned from a call that names a
\* certificate encoding family, a function, an OID and a module, and no
\* override function name
RegisteredPlain ==
    /\ pc = "returned"
    /\ call.op = "CryptRegisterOIDFunction"
    /\ GET_CERT_ENCODING_TYPE(Deref(call.a).enc) # 0
    /\ Deref(call.a).func # Null
    /\ Deref(call.a).id # NumId(0)
    /\ Deref(call.a).dll # Null
    /\ Deref(call.a).override = Null

\* the key of the call that has returned
RegisteredKey ==
    CRYPT_GetKeyName(Deref(call.a).enc, Deref(Deref(call.a).func), Deref(call.a).id)

\* C30: when the last call on a key is a registration with a module name
\* and no override function name, the key holds that module name and no
\* "FuncName" value, so that the lookup resolves the generic function name;
\* an override an earlier registration wrote does not survive.
C30_PlainRegisterDropsOverride ==
    RegisteredPlain =>
        /\ RegisteredKey \in DOMAIN loc.reg
        /\ loc.reg[RegisteredKey].Dll = [type |-> REG_SZ, data |-> Deref(Deref(call.a).dll)]
        /\ loc.reg[RegisteredKey].FuncName = NoValue

====
